---------------------------- MODULE Spec2Model ----------------------------
(***************************************************************************)
(* A model of the transit-accessibility pipeline of urban-heat-island:     *)
(*   - utils.fallback, the retry decorator, and the Fetcher downloads      *)
(*     that are wrapped in it (fetchers.py);                               *)
(*   - _overpass_to_geojson, the conversion of a payload (fetchers.py);    *)
(*   - Workspace.import_geojson, create_impedance_raster,                  *)
(*     calculate_building_travel_times and run_analysis                    *)
(*     (transit_accessibility_analysis.py);                                *)
(*   - process_gmina's service-area solve and the batch run of main        *)
(*     (run_all_gminas_service_area.py);                                   *)
(*   - Workspace.calculate_travel_time and the conversions between minutes *)
(*     and metres built on the walking speed;                              *)
(*   - OSM.is_rural_gmina and OSM.download_rural_gminas_data               *)
(*     (data_pipeline.py).                                                 *)
(***************************************************************************)
EXTENDS Integers, Sequences, FiniteSets, TLC

(***************************************************************************)
(* State of one call of a function wrapped by utils.fallback.  The frame   *)
(* variables attempt, delay and last_exception are the locals of wrapper;  *)
(* the o_ variables are the same locals of the enclosing wrapper when a    *)
(* wrapped download calls the wrapped download_overpass.                   *)
(***************************************************************************)
VARIABLES fn, max_retries, initial_delay, backoff_factor,
          attempt, delay, last_exception, wpc,
          o_attempt, o_delay, o_last_exception, opc,
          outcomes, o_calls, sleeps, raised

retryVars == <<fn, max_retries, initial_delay, backoff_factor,
               attempt, delay, last_exception, wpc,
               o_attempt, o_delay, o_last_exception, opc,
               outcomes, o_calls, sleeps, raised>>

(***************************************************************************)
(* State of the raster analysis (Workspace): the input GeoJSON files, the  *)
(* feature classes of the geodatabase, the position of run_analysis or of  *)
(* one import_geojson call, what the call returned or raised, what it      *)
(* logged, the status arcpy reports for the Spatial Analyst extension and  *)
(* the impedance raster.                                                   *)
(***************************************************************************)
VARIABLES files, call, gdb, pc, ret, exc, log, travel_time, centroids,
          checked_out, spatial_status, impedance

analysisVars == <<files, call, gdb, pc, ret, exc, log, travel_time,
                  centroids, checked_out, spatial_status, impedance>>

(***************************************************************************)
(* State of one service-area solve of process_gmina: the road graph (the   *)
(* length in metres of the edge between two nodes, 0 for no edge), the     *)
(* anchored stops, the cutoffs in minutes, the solver's labels and the     *)
(* reachable node set it returns for each cutoff.                          *)
(***************************************************************************)
VARIABLES edge_len, stops, cutoffs, dist, labelled, settled, service_area, gpc

graphVars == <<edge_len, stops, cutoffs, dist, labelled, settled,
               service_area, gpc>>

(***************************************************************************)
(* State of one call of fetchers._overpass_to_geojson: the elements of the *)
(* Overpass payload read from src, and the features written to dst.        *)
(***************************************************************************)
VARIABLES elements, geojson_out, cvpc

overpassVars == <<elements, geojson_out, cvpc>>

(***************************************************************************)
(* State of a batch run (run_all_gminas_service_area.main): the index, the *)
(* input files that exist, the loop position, the attributes of the        *)
(* pipeline object and the arcpy environment, the geodatabases on disk     *)
(* (for each, the area whose data each step last wrote there), the areas   *)
(* a solver step ran for, and the lines of the summary file.               *)
(***************************************************************************)
VARIABLES index, present, pct, bi, bpc, b_exc, workspace, workspace_gdb,
          env_workspace, gdbs, used_gdb, solved, summary

batchVars == <<index, present, pct, bi, bpc, b_exc, workspace, workspace_gdb,
               env_workspace, gdbs, used_gdb, solved, summary>>

(***************************************************************************)
(* State of the unit conversions built on Workspace.walking_speed_kmh and  *)
(* ArcGisPipeline.walking_speed_kmh: the speed in km/h, a length in metres,*)
(* the minutes calculate_travel_time charges per metre on a network cell   *)
(* and the cutoffs in metres process_gmina hands to run_service_area.      *)
(***************************************************************************)
VARIABLES kmh, length_m, minutes_per_metre, cutoffs_m, kpc

speedVars == <<kmh, length_m, minutes_per_metre, cutoffs_m, kpc>>

(***************************************************************************)
(* State of data_pipeline: the tags of one call of is_rural_gmina and its  *)
(* result; and, for download_rural_gminas_data, the gminas fetched, the    *)
(* index file written, the files in each gmina's directory, the loop       *)
(* position and the exception that left the function.                      *)
(***************************************************************************)
VARIABLES gmina_tags, rural, rpc, gminas, rural_gminas, index_file, dir_files,
          di, dpc, d_exc, has_walk

ruralVars == <<gmina_tags, rural, rpc, gminas, rural_gminas, index_file, dir_files,
               di, dpc, d_exc, has_walk>>

(***************************************************************************)
(* State of one call of Workspace.calculate_travel_time: the cells holding *)
(* a stop, the impedance raster, the argument max_time_min and the raster  *)
(* saved as travel_time_min.                                               *)
(***************************************************************************)
VARIABLES stops_fc, impedance_raster, max_time_min, travel_time_ras, tpc

travelVars == <<stops_fc, impedance_raster, max_time_min, travel_time_ras, tpc>>

vars == <<retryVars, analysisVars, graphVars, overpassVars, batchVars,
          speedVars, ruralVars, travelVars>>

\* what an action of the retry wrapper, of the analysis, of the solve, of
\* the conversion and of the batch leaves alone
notRetry ==
    <<analysisVars, graphVars, overpassVars, batchVars, speedVars,
    ruralVars, travelVars>>
notAnalysis ==
    <<retryVars, graphVars, overpassVars, batchVars, speedVars,
    ruralVars, travelVars>>
notGraph ==
    <<retryVars, analysisVars, overpassVars, batchVars, speedVars,
    ruralVars, travelVars>>
notOverpass ==
    <<retryVars, analysisVars, graphVars, batchVars, speedVars,
    ruralVars, travelVars>>
notSpeed ==
    <<retryVars, analysisVars, graphVars, overpassVars, batchVars,
    ruralVars, travelVars>>
notRural ==
    <<retryVars, analysisVars, graphVars, overpassVars, batchVars,
    speedVars, travelVars>>
notTravel ==
    <<retryVars, analysisVars, graphVars, overpassVars, batchVars,
    speedVars, ruralVars>>
notBatch ==
    <<retryVars, analysisVars, graphVars, overpassVars, speedVars,
    ruralVars, travelVars>>

--------------------------------------------------------------------------
(* Bounds of the model. *)

\* largest max_retries a decorator is built with in the model
MaxRetriesBound == 3
\* largest initial_delay a decorator is built with in the model
MaxInitialDelay == 2
\* largest backoff_factor a decorator is built with in the model
MaxBackoff == 2
\* largest number of features of an input file
MaxFeatures == 2
\* number of raster cells of the study extent
NCells == 2
\* the travel times of the model lie within TimeSpread minutes of the cutoff
TimeSpread == 1
\* the nodes of a road graph are 0..MaxNode
MaxNode == 2
\* largest number of elements of an Overpass payload
MaxElements == 2
\* largest number of areas of the index of a batch run
MaxAreas == 3
\* the walking speeds of the model are 1..MaxSpeedKmh km/h
MaxSpeedKmh == 6
\* the lengths of the model are the multiples of LengthStep metres up to
\* MaxLengthSteps steps
LengthStep == 50
MaxLengthSteps == 30
\* largest number of gminas fetch_gminas_in_voivodeship returns
MaxGminas == 3

--------------------------------------------------------------------------
(* utils.fallback *)

\* the defaults of fallback(max_retries=3, initial_delay=1, backoff_factor=2)
DefaultMaxRetries == 3
DefaultInitialDelay == 1
DefaultBackoffFactor == 2

\* exceptions=(Exception,): the classes the wrapper catches
exceptions == {"Exception"}

\* What one invocation of the wrapped coroutine does: it returns, raises an
\* Exception (an HTTP error, a ValueError, ...), or raises a BaseException
\* that is no Exception (asyncio.CancelledError).
Outcomes == {"ok", "Exception", "CancelledError"}

NoException == [cls |-> "None", at |-> 0]

\* the exception object raised by invocation number n
Exc(cls, n) == [cls |-> cls, at |-> n]

\* "except exceptions as e": is an exception of class cls caught?
Caught(cls) == cls \in exceptions

ShouldSleepAfterLast(a, m) == a <= m

\* "if attempt < max_retries": does the wrapper sleep after a failed attempt?
ShouldSleep(a, m) == a < m

\* "delay *= backoff_factor"
NextDelay(d, b) == d * b

\* "for attempt in range(1, max_retries + 1)": is there another iteration
\* after iteration a?
HasNextAttempt(a, m) == a + 1 <= m

RetryAfterSuccess(a, m) == IF a + 1 <= m THEN "try" ELSE "returned"

\* line 15, "return await func(*args, **kwargs)": where the wrapper goes when
\* the invocation of iteration a returns
ReturnAtOnce(a, m) == "returned"

\* the wrapped functions of fetchers.py that call download_overpass
DownloadFns == {"download_osm_transit_stops", "download_osm_road_network",
                "download_osm_buildings", "download_osm_relation_boundary"}

\* a call of some coroutine wrapped by fallback(...), called directly
DirectFns == {"func", "download_overpass"}


--------------------------------------------------------------------------
(* Workspace.import_geojson *)

\* A feature of an input file is [geometry |-> g, building |-> tag].  The
\* geometry g is [type, coords, pt, line, polys]: type is the "type" member,
\* or <missing> (the feature has no geometry member), <null> (geometry is
\* null), <empty> (geometry is {}), <nonobject> (geometry is a string or a
\* list) or <notype> (an object without "type"); coords is "array" or "null";
\* pt, line and polys hold the coordinate array of a Point, of a LineString
\* and of a Polygon (one polygon) or MultiPolygon (a list of polygons, each a
\* list of rings, each a list of positions).  Positions are numbered.
Geom(type, coords, pt, line, polys) ==
    [type |-> type, coords |-> coords, pt |-> pt, line |-> line, polys |-> polys]

NoGeom(type) == Geom(type, "null", << >>, << >>, << >>)

Feat(g, tag) == [geometry |-> g, building |-> tag]

\* the value of props.get("building", "") for a tag member that is absent
\* or null; <props-null> stands for a feature whose properties are null
AbsentTags == {"<absent>", "<null>"}

\* line 117: str(props.get("building", "") or "")[:50].  The tags of the
\* model are shorter than 50 characters, so the slice keeps them whole.
BuildingVal(tag) == IF tag \in AbsentTags THEN "" ELSE tag

\* line 48: features[0]["geometry"]["type"] raises for a first feature
\* without a geometry object
FirstGeomRaises(g) ==
    CASE g.type \in {"<missing>", "<empty>", "<notype>"} -> "KeyError"
      [] g.type \in {"<null>", "<nonobject>"} -> "TypeError"
      [] OTHER -> ""

\* lines 45-56: the geometry type of the feature class
GeomTypeOf(features, geometry_type_override) ==
    IF geometry_type_override # ""
      THEN geometry_type_override
      ELSE LET first_geom == features[1].geometry.type IN
           CASE first_geom = "Point" -> "POINT"
             [] first_geom = "LineString" -> "POLYLINE"
             [] first_geom \in {"Polygon", "MultiPolygon"} -> "POLYGON"
             [] OTHER -> "POINT"

\* line 77: "if not geom: continue"
SkippedAsEmpty(g) == g.type \in {"<missing>", "<null>", "<empty>"}

\* line 79: geom.get("type") is outside the try block and raises for a
\* geometry that is no object
GeomGetRaises(g) == g.type = "<nonobject>"

\* line 99: "coords and len(coords) > 2 and coords[0] == coords[-1]"
IsClosedRing(coords) ==
    Len(coords) > 0 /\ Len(coords) > 2 /\ coords[1] = coords[Len(coords)]

LineStringSkipOpen(coords) ==
    IF IsClosedRing(coords) THEN << <<coords>> >> ELSE << >>

\* lines 97-106: the polygon structure made of a LineString
LineStringPolys(coords) ==
    IF IsClosedRing(coords)
      THEN << <<coords>> >>
      ELSE << <<Append(coords, coords[1])>> >>

\* lines 92-106: bg_polys
BgPolys(g) ==
    CASE g.type = "Polygon" -> g.polys
      [] g.type = "MultiPolygon" -> g.polys
      [] g.type = "LineString" -> LineStringPolys(g.line)
      [] OTHER -> << >>

\* lines 82-121: does building shape_list or the row raise inside the try
\* block?  (A null coordinate array, an index into an empty array, or
\* props.get on null properties.)
ShapeRaises(geom_type, f) ==
    LET g == f.geometry IN
    CASE geom_type = "POINT" /\ g.type = "Point" ->
           g.coords = "null" \/ Len(g.pt) < 2 \/ f.building = "<props-null>"
      [] geom_type = "POLYLINE" /\ g.type = "LineString" ->
           g.coords = "null" \/ f.building = "<props-null>"
      [] geom_type = "POLYGON" /\ g.type \in {"Polygon", "MultiPolygon"} ->
           \/ g.coords = "null"
           \/ \E k \in 1..Len(g.polys) : Len(g.polys[k]) = 0
           \/ (Len(g.polys) > 0 /\ f.building = "<props-null>")
      [] geom_type = "POLYGON" /\ g.type = "LineString" ->
           g.coords = "null" \/ Len(g.line) = 0 \/ f.building = "<props-null>"
      [] OTHER -> FALSE

\* a ring with fewer than three distinct positions encloses no area
IsDegenerate(ring) == Cardinality({ring[k] : k \in 1..Len(ring)}) < 3

\* line 109: "if poly and not poly.isMultipart".  The polygon of a ring
\* with three or more distinct positions passes; whether arcpy finds the
\* polygon made of a degenerate ring true is not decided by this code
\* (degenerate_kept).
PolyPasses(ring, degenerate_kept) == ~IsDegenerate(ring) \/ degenerate_kept

\* lines 83-113: shape_list of a feature that does not raise.  A Point is
\* kept as the number of the cell it lies in.
ShapeList(geom_type, g, degenerate_kept) ==
    CASE geom_type = "POINT" /\ g.type = "Point" ->
           << [kind |-> "point", pts |-> <<g.pt[1]>>] >>
      [] geom_type = "POLYLINE" /\ g.type = "LineString" ->
           << [kind |-> "polyline", pts |-> g.line] >>
      [] geom_type = "POLYGON" ->
           LET bg == SelectSeq(BgPolys(g),
                               LAMBDA poly_geom : PolyPasses(poly_geom[1], degenerate_kept))
           IN [k \in 1..Len(bg) |-> [kind |-> "polygon", pts |-> bg[k][1]]]
      [] OTHER -> << >>

\* lines 115-119: the rows inserted for feature number i (src records the
\* feature a row was made of)
FeatureRows(geom_type, f, i, degenerate_kept) ==
    IF ShapeRaises(geom_type, f)
      THEN << >>
      ELSE LET shapes == ShapeList(geom_type, f.geometry, degenerate_kept) IN
           [k \in 1..Len(shapes) |->
              [src |-> i, shape |-> shapes[k], building |-> BuildingVal(f.building)]]

\* lines 74-121: the insert loop from feature i on; rows are the rows
\* inserted so far.  It ends with the rows and the exception that left it.
RECURSIVE InsertLoop(_, _, _, _, _)
InsertLoop(features, geom_type, i, rows, degenerate_kept) ==
    IF i > Len(features)
      THEN [raised |-> "", rows |-> rows]
      ELSE LET f == features[i] IN
           IF SkippedAsEmpty(f.geometry)
             THEN InsertLoop(features, geom_type, i + 1, rows, degenerate_kept)
           ELSE IF GeomGetRaises(f.geometry)
             THEN [raised |-> "AttributeError", rows |-> rows]
           ELSE InsertLoop(features, geom_type, i + 1,
                           rows \o FeatureRows(geom_type, f, i, degenerate_kept),
                           degenerate_kept)

\* a feature class of the geodatabase; Absent is a name that does not exist
Absent == [exists |-> FALSE, gtype |-> "", sr |-> 0, rows |-> << >>]

FeatureClass(gtype, sr, rows) ==
    [exists |-> TRUE, gtype |-> gtype, sr |-> sr, rows |-> rows]

\* line 14-15: self.sr_metric, self.sr_wgs84
sr_metric == 2180
sr_wgs84 == 4326

OutputNames == {"stops_pts", "walk_net_lines", "buildings_polys"}

\* line 58: temp_fc_name
TempName(output_name) ==
    CASE output_name = "stops_pts" -> "temp_cust_stops_pts"
      [] output_name = "walk_net_lines" -> "temp_cust_walk_net_lines"
      [] output_name = "buildings_polys" -> "temp_cust_buildings_polys"

FcNames == OutputNames \cup {TempName(n) : n \in OutputNames}

\* line 135: "return out_fc"
ReturnValue(out_fc, inserted_count, attempted) ==
    [kind |-> "path", path |-> out_fc, accepted |-> 0, attempted |-> 0]

NoReturn == [kind |-> "none", path |-> "", accepted |-> 0, attempted |-> 0]

\* lines 61-62 and 131-132: "if arcpy.Exists(fc): arcpy.management.Delete(fc)"
DeleteIfExists(g, name) ==
    IF g[name].exists THEN [g EXCEPT ![name] = Absent] ELSE g

\* line 64: CreateFeatureclass makes an empty feature class of the name; an
\* existing one is replaced (line 32 sets arcpy.env.overwriteOutput)
CreateFeatureclass(g, name, gtype, sr) ==
    [g EXCEPT ![name] = FeatureClass(gtype, sr, << >>)]

CreateIfMissing(g, name, gtype, sr) ==
    IF g[name].exists THEN g ELSE CreateFeatureclass(g, name, gtype, sr)

\* lines 61-64: an existing temporary class is deleted and the class made
RecreateFeatureclass(g, name, gtype, sr) ==
    CreateFeatureclass(DeleteIfExists(g, name), name, gtype, sr)

\* lines 72 and 118: the rows the InsertCursor adds to a feature class
InsertRows(g, name, rows) ==
    [g EXCEPT ![name] = FeatureClass(g[name].gtype, g[name].sr, g[name].rows \o rows)]

\* line 134: management.Project(temp_fc, out_fc, sr)
Project(g, in_fc, out_fc, sr) ==
    [g EXCEPT ![out_fc] = FeatureClass(g[in_fc].gtype, sr, g[in_fc].rows)]

\* import_geojson, lines 34-135: the exception it raises ("" for none), the
\* geodatabase it leaves, what it returns and what it logs at line 123.
ImportGeojson(features, output_name, geometry_type_override, g, degenerate_kept) ==
    IF Len(features) = 0
      THEN [raised |-> "ValueError", gdb |-> g, ret |-> NoReturn, log |-> << >>]
    ELSE IF geometry_type_override = "" /\ FirstGeomRaises(features[1].geometry) # ""
      THEN [raised |-> FirstGeomRaises(features[1].geometry), gdb |-> g,
            ret |-> NoReturn, log |-> << >>]
    ELSE
      LET geom_type == GeomTypeOf(features, geometry_type_override)
          temp_fc == TempName(output_name)
          created == RecreateFeatureclass(g, temp_fc, geom_type, sr_wgs84)
          loop == InsertLoop(features, geom_type, 1, << >>, degenerate_kept)
          inserted == InsertRows(created, temp_fc, loop.rows)
          inserted_count == Len(loop.rows)
      IN IF loop.raised # ""
           THEN [raised |-> loop.raised, gdb |-> inserted,
                 ret |-> NoReturn, log |-> << >>]
           ELSE [raised |-> "",
                 gdb |-> Project(DeleteIfExists(inserted, output_name),
                                 temp_fc, output_name, sr_metric),
                 ret |-> ReturnValue(output_name, inserted_count, Len(features)),
                 log |-> << [inserted |-> inserted_count,
                             attempted |-> Len(features)] >>]

--------------------------------------------------------------------------
(* data_pipeline.OSM.is_rural_gmina *)

\* A string is the sequence of its characters.  The tags of a gmina are
\* [teryt_terc, terc, name, place]: the values of the keys "teryt:terc",
\* "terc", "name" and "place", NoneValue for a key the tags do not hold.
NoneValue == <<"None">>

Tags(teryt_terc, terc, name, place) ==
    [teryt_terc |-> teryt_terc, terc |-> terc, name |-> name, place |-> place]

NoTags == Tags(NoneValue, NoneValue, NoneValue, NoneValue)

\* the truth value of a string or None
Truthy(v) == v # NoneValue /\ v # << >>

\* Python's "a or b"
Or(a, b) == IF Truthy(a) THEN a ELSE b

\* str.strip()
RECURSIVE LStrip(_)
LStrip(s) == IF s # << >> /\ Head(s) = " " THEN LStrip(Tail(s)) ELSE s

RECURSIVE RStrip(_)
RStrip(s) ==
    IF s # << >> /\ s[Len(s)] = " " THEN RStrip(SubSeq(s, 1, Len(s) - 1)) ELSE s

Strip(s) == RStrip(LStrip(s))

\* str.lower(), on the capital letters of the model
LowerChar(ch) ==
    CASE ch = "M" -> "m"
      [] ch = "C" -> "c"
      [] ch = "T" -> "t"
      [] ch = "D" -> "d"
      [] OTHER -> ch

Lower(s) == [i \in 1..Len(s) |-> LowerChar(s[i])]

\* "sub in s" and s.startswith(prefix)
Contains(s, sub) ==
    \E i \in 0..(Len(s) - Len(sub)) : SubSeq(s, i + 1, i + Len(sub)) = sub

StartsWith(s, prefix) ==
    Len(s) >= Len(prefix) /\ SubSeq(s, 1, Len(prefix)) = prefix

\* config.py line 48
RURAL_GMINA_TERC_SUFFIXES == {"2"}

\* data_pipeline.py lines 58-69
is_rural_gmina(tg) ==
    LET terc == Strip(Or(Or(tg.teryt_terc, tg.terc), << >>))
        name == Lower(Or(tg.name, << >>))
        place == Lower(Or(tg.place, << >>))
    IN  IF terc # << >> /\ Len(terc) >= 1
          THEN terc[Len(terc)] \in RURAL_GMINA_TERC_SUFFIXES
        ELSE IF Contains(name, <<"m", "i", "a", "s", "t", "o">>)
                \/ StartsWith(name, <<"m", ".", " ">>)
          THEN FALSE
        ELSE IF place \in {<<"c", "i", "t", "y">>, <<"t", "o", "w", "n">>}
          THEN FALSE
        ELSE TRUE

\* the TERC codes, names and place values of the model
UrbanCode == <<"2", "8", "1">>
RuralCode == <<"2", "8", "2">>
TercValues ==
    {NoneValue, << >>, <<" ">>, UrbanCode, RuralCode, RuralCode \o <<" ">>,
     <<" ">> \o UrbanCode}
NameValues ==
    {NoneValue, <<"D", "y", "w">>, <<"M", "i", "a", "s", "t", "o", " ", "D">>,
     <<"m", ".", " ", "D">>, <<"M", ".", " ", "D">>, <<"m", ".", "D">>}
PlaceValues ==
    {NoneValue, <<"c", "i", "t", "y">>, <<"T", "o", "w", "n">>,
     <<"v", "i", "l", "l", "a", "g", "e">>}
TagValues ==
    {Tags(a, b, n, p) : a \in TercValues, b \in TercValues,
                        n \in NameValues, p \in PlaceValues}

--------------------------------------------------------------------------
(* Workspace.calculate_building_travel_times and run_analysis *)

Cells == 1..NCells

\* the raster cell a numbered position lies in
CellOf(p) == ((p - 1) % NCells) + 1

\* a value of the travel-time raster or of the field walk_time_min: minutes,
\* or NoData (None in the field)
Null == [null |-> TRUE, v |-> 0]
Minutes(v) == [null |-> FALSE, v |-> v]

\* line 297: "if time_val > 15"
ExcludedThreshold == 15

ClassifyExclusive(time_val) ==
    IF time_val.null THEN 1
    ELSE IF time_val.v >= ExcludedThreshold THEN 1
    ELSE 0

\* lines 294-299: classify(time_val)
Classify(time_val) ==
    IF time_val.null THEN 1
    ELSE IF time_val.v > ExcludedThreshold THEN 1
    ELSE 0

\* lines 258-262 of classify_isochrones: the rows [from, to, class] of
\* sa.RemapRange
RemapRange == << <<0, 5, 1>>, <<5, 10, 2>>, <<10, 99999, 3>> >>

\* the boundaries of the bins of classify_isochrones
ClassBoundaries ==
    UNION {{RemapRange[k][1], RemapRange[k][2]} : k \in 1..Len(RemapRange)}

\* line 281: the values of the IN list of where_clause
ResidentialTags == {"apartments", "house", "residential", "detached",
                    "semidetached_house", "terrace", "dormitory", "yes"}

WhereHasBuilding(building) == building # ""

\* line 281-282: does a row pass where_clause?
ResidentialWhere(building) == building \in ResidentialTags

\* SelectSeq with the rows kept in order
ResLayer(rows) == SelectSeq(rows, LAMBDA r : ResidentialWhere(r.building))

\* lines 279-303: building_centroids_time.  FeatureToPoint makes one point
\* per row of res_layer, ExtractMultiValuesToPoints samples the raster at
\* the point, CalculateField stores classify(walk_time_min).
BuildingCentroids(building_rows, raster) ==
    LET res_layer == ResLayer(building_rows) IN
    [k \in 1..Len(res_layer) |->
       LET cell == CellOf(res_layer[k].shape.pts[1]) IN
       [src |-> res_layer[k].src,
        building |-> res_layer[k].building,
        cell |-> cell,
        walk_time_min |-> raster[cell],
        is_excluded |-> Classify(raster[cell])]]

\* the travel times sa.CostDistance may write to a cell
TimeVals ==
    {Null, Minutes(0)} \cup
    {Minutes(v) : v \in (ExcludedThreshold - TimeSpread)..(ExcludedThreshold + TimeSpread)}

NoDataRaster == [c \in Cells |-> Null]

\* the statuses arcpy.CheckExtension reports for an extension
ExtensionStatuses == {"Available", "Unavailable", "NotLicensed"}

\* a cell that holds a value
CellValue(v) == [null |-> FALSE, v |-> v]

\* lines 151-152 of create_impedance_raster
background_cost == 10
network_cost == 1

\* lines 159-187: the extent polygon with COST = background_cost is turned
\* into a raster: every cell of the extent holds the background cost
BackgroundGrid == [c \in Cells |-> CellValue(background_cost)]

\* line 208: the 2.5 m buffer of a line reaches the centre of a cell when
\* the line passes the centre.  The positions 1..NCells are the centres of
\* the cells; a higher position lies in its cell off the centre, out of the
\* buffer's reach.
CentreInBuffer(row, c) ==
    \E k \in 1..Len(row.shape.pts) :
      row.shape.pts[k] <= NCells /\ CellOf(row.shape.pts[k]) = c

\* lines 210-221: the buffers with COST = network_cost are turned into a
\* raster with cell_assignment CELL_CENTER: a cell whose centre lies in a
\* buffer holds the network cost, any other cell NoData
WalkGrid(walk_rows) ==
    [c \in Cells |->
       IF \E k \in 1..Len(walk_rows) : CentreInBuffer(walk_rows[k], c)
         THEN CellValue(network_cost) ELSE Null]

CellMinimumNoData(a, b) ==
    IF a.null \/ b.null THEN Null ELSE IF a.v <= b.v THEN a ELSE b

\* line 224: sa.CellStatistics([bg_ras, walk_ras], "MINIMUM", "DATA"): the
\* least of the values of a cell, NoData inputs ignored
CellMinimum(a, b) ==
    IF a.null THEN b ELSE IF b.null THEN a ELSE IF a.v <= b.v THEN a ELSE b

\* lines 223-227: impedance_surface
ImpedanceRaster(walk_rows) ==
    [c \in Cells |-> CellMinimum(BackgroundGrid[c], WalkGrid(walk_rows)[c])]

EmptyGdb == [n \in FcNames |-> Absent]

\* a geodatabase that an earlier run has written to
StaleGdb ==
    [n \in FcNames |->
       FeatureClass("POINT", IF n \in OutputNames THEN sr_metric ELSE sr_wgs84,
                    << [src |-> 0, shape |-> [kind |-> "point", pts |-> <<1>>],
                        building |-> "stale"] >>)]

\* The features of the input files.
Ring(c) == <<c, c + NCells, c + 2 * NCells, c>>
PointGeom(c) == Geom("Point", "array", <<c, c>>, << >>, << >>)
LineGeom(line) == Geom("LineString", "array", << >>, line, << >>)
PolygonGeom(c) == Geom("Polygon", "array", << >>, << >>, << <<Ring(c)>> >>)
MultiPolygonGeom(c, d) ==
    Geom("MultiPolygon", "array", << >>, << >>, << <<Ring(c)>>, <<Ring(d)>> >>)

StopFeatures ==
    {Feat(PointGeom(c), "<absent>") : c \in {1, NCells}}
    \cup {Feat(NoGeom("<null>"), "<absent>"),
          Feat(Geom("Point", "array", << >>, << >>, << >>), "<absent>")}

\* a line through the centres of cells 1 and NCells, and a line through the
\* centre of cell 1 that passes cell 2 off its centre
WalkFeatures ==
    {Feat(LineGeom(<<1, NCells>>), "<absent>"),
     Feat(LineGeom(<<1, NCells + 2>>), "<absent>")}

BuildingFeatures ==
    {Feat(PolygonGeom(c), t) : c \in {1, NCells}, t \in {"house", "shed"}}
    \cup {Feat(MultiPolygonGeom(1, NCells), "house"),
          Feat(LineGeom(<<1, 1 + NCells, 1 + 2 * NCells>>), "yes"),
          Feat(NoGeom("<null>"), "house")}

ImportFeatures ==
    StopFeatures \cup BuildingFeatures
    \cup {Feat(NoGeom(t), "house") : t \in {"<missing>", "<empty>", "<nonobject>", "<notype>"}}
    \cup {Feat(Geom("Point", "array", << >>, << >>, << >>), "<absent>"),
          Feat(Geom("Polygon", "null", << >>, << >>, << >>), "house"),
          Feat(PolygonGeom(1), "<props-null>"),
          Feat(LineGeom(Ring(1)), "<absent>"),
          Feat(LineGeom(<<1, 1>>), "yes"),
          Feat(LineGeom(<<1, 1 + NCells>>), "yes"),
          Feat(LineGeom(<< >>), "yes")}

\* the sequences over S of length at most n
SeqUpTo(S, n) == UNION {[1..k -> S] : k \in 0..n}

Overrides == {"", "POINT", "POLYLINE", "POLYGON"}

NoCall == [input_path |-> "", output_name |-> "", geometry_type_override |-> ""]

\* a number as a fraction num / den
Fraction(num, den) == [num |-> num, den |-> den]

\* the areas (gminas) of an index, known by their position in the full index
Areas == 1..MaxAreas

\* the geodatabase paths of a batch run: OUTPUT_DIR / "service_area.gdb" and
\* g_dir / "service_area.gdb" of every area
OutputGdb == <<"output", 0>>
AreaGdb(a) == <<"data", a>>
NoPath == <<"", 0>>
GdbPaths == {OutputGdb} \cup {AreaGdb(a) : a \in Areas}

RetryIdle ==
    /\ fn = "func"
    /\ max_retries = DefaultMaxRetries
    /\ initial_delay = DefaultInitialDelay
    /\ backoff_factor = DefaultBackoffFactor
    /\ attempt = 1
    /\ delay = DefaultInitialDelay
    /\ last_exception = NoException
    /\ wpc = "idle"
    /\ o_attempt = 1
    /\ o_delay = DefaultInitialDelay
    /\ o_last_exception = NoException
    /\ opc = "none"
    /\ outcomes = << >>
    /\ o_calls = 0
    /\ sleeps = << >>
    /\ raised = NoException

AnalysisIdle ==
    /\ files = [stops |-> << >>, walk |-> << >>, buildings |-> << >>]
    /\ call = NoCall
    /\ gdb = EmptyGdb
    /\ pc = "idle"
    /\ ret = NoReturn
    /\ exc = ""
    /\ log = << >>
    /\ travel_time = NoDataRaster
    /\ centroids = << >>
    /\ checked_out = FALSE
    /\ spatial_status = "Available"
    /\ impedance = NoDataRaster

GraphIdle ==
    /\ edge_len = [p \in {q \in (0..MaxNode) \X (0..MaxNode) : q[1] < q[2]} |-> 0]
    /\ stops = {}
    /\ cutoffs = << >>
    /\ dist = [n \in 0..MaxNode |-> 0]
    /\ labelled = {}
    /\ settled = {}
    /\ service_area = << >>
    /\ gpc = "idle"

OverpassIdle ==
    /\ elements = << >>
    /\ geojson_out = << >>
    /\ cvpc = "idle"

BatchIdle ==
    /\ index = << >>
    /\ present = {}
    /\ pct = [a \in Areas |-> Fraction(0, 1)]
    /\ bi = 0
    /\ bpc = "idle"
    /\ b_exc = ""
    /\ workspace = NoPath
    /\ workspace_gdb = NoPath
    /\ env_workspace = NoPath
    /\ gdbs = [p \in GdbPaths |-> 0]
    /\ used_gdb = [a \in Areas |-> NoPath]
    /\ solved = {}
    /\ summary = << >>

\* a value of the raster CostDistance returns: the accumulated minutes as a
\* fraction, or NoData
NoTime == [null |-> TRUE, v |-> Fraction(0, 1)]
TimeValue(t) == [null |-> FALSE, v |-> t]
NoTravelRaster == [c \in Cells |-> NoTime]

SpeedIdle ==
    /\ kmh = 0
    /\ length_m = 0
    /\ minutes_per_metre = Fraction(0, 1)
    /\ cutoffs_m = << >>
    /\ kpc = "idle"

RuralIdle ==
    /\ gmina_tags = NoTags
    /\ rural = FALSE
    /\ rpc = "idle"
    /\ gminas = << >>
    /\ rural_gminas = << >>
    /\ index_file = << >>
    /\ dir_files = {}
    /\ di = 0
    /\ dpc = "idle"
    /\ d_exc = ""
    /\ has_walk = FALSE

TravelIdle ==
    /\ stops_fc = {}
    /\ impedance_raster = NoDataRaster
    /\ max_time_min = 0
    /\ travel_time_ras = NoTravelRaster
    /\ tpc = "idle"

\* run_analysis is called on three input files in a fresh geodatabase
AnalysisInit ==
    /\ RetryIdle
    /\ SpeedIdle
    /\ RuralIdle
    /\ TravelIdle
    /\ GraphIdle
    /\ OverpassIdle
    /\ BatchIdle
    /\ \E s \in SeqUpTo(StopFeatures, MaxFeatures),
          w \in SeqUpTo(WalkFeatures, 1),
          b \in SeqUpTo(BuildingFeatures, MaxFeatures) :
         files = [stops |-> s, walk |-> w, buildings |-> b]
    /\ call = NoCall
    /\ gdb = EmptyGdb
    /\ pc = "start"
    /\ ret = NoReturn
    /\ exc = ""
    /\ log = << >>
    /\ travel_time = NoDataRaster
    /\ centroids = << >>
    /\ checked_out = FALSE
    /\ spatial_status \in ExtensionStatuses
    /\ impedance = NoDataRaster

FailWithoutFinally(e) ==
    /\ exc' = e
    /\ pc' = "raised"
    /\ checked_out' = checked_out
    /\ ret' = NoReturn

\* lines 335-339: an exception e of a step is logged and raised again, and
\* the finally clause checks the extension in
Fail(e) ==
    /\ exc' = e
    /\ pc' = "raised"
    /\ checked_out' = FALSE
    /\ ret' = NoReturn

\* line 312: "if not arcpy.CheckExtension("Spatial")".  CheckExtension
\* returns a status string, and "not" is true of the empty string only.
LicenseCheckFails(status) == status = ""

\* lines 312-314: the licence check and the check-out.  For a status other
\* than Available, CheckOutExtension either raises or returns a status and
\* leaves the extension not checked out.
Start ==
    /\ pc = "start"
    /\ IF LicenseCheckFails(spatial_status)
         THEN /\ exc' = "Exception"
              /\ pc' = "raised"
              /\ UNCHANGED <<checked_out, ret>>
       ELSE IF spatial_status = "Available"
         THEN /\ checked_out' = TRUE
              /\ pc' = "import_stops"
              /\ UNCHANGED <<exc, ret>>
       ELSE \E raises \in BOOLEAN :
              IF raises
                THEN /\ exc' = "RuntimeError"
                     /\ pc' = "raised"
                     /\ UNCHANGED <<checked_out, ret>>
                ELSE /\ pc' = "import_stops"
                     /\ UNCHANGED <<checked_out, exc, ret>>
    /\ UNCHANGED <<files, call, gdb, log, travel_time, centroids,
                   spatial_status, impedance>>
    /\ UNCHANGED notAnalysis

\* one import_geojson call of run_analysis, lines 317-319
ImportStep(at, path, output_name, override, then) ==
    /\ pc = at
    /\ \E degenerate_kept \in BOOLEAN :
       LET r == ImportGeojson(files[path], output_name, override, gdb,
                              degenerate_kept) IN
         /\ gdb' = r.gdb
         /\ log' = log \o r.log
         /\ IF r.raised # ""
              THEN Fail(r.raised)
              ELSE /\ pc' = then
                   /\ UNCHANGED <<exc, ret, checked_out>>
    /\ UNCHANGED <<files, call, travel_time, centroids, spatial_status, impedance>>
    /\ UNCHANGED notAnalysis

ImportStops == ImportStep("import_stops", "stops", "stops_pts", "", "import_walk")

ImportWalk == ImportStep("import_walk", "walk", "walk_net_lines", "", "import_buildings")

ImportBuildings ==
    ImportStep("import_buildings", "buildings", "buildings_polys", "POLYGON",
               "impedance")

\* line 326: create_impedance_raster runs geoprocessing tools, which write
\* the impedance surface or raise arcpy.ExecuteError; without the extension
\* checked out sa.CellStatistics raises.
CreateImpedance ==
    /\ pc = "impedance"
    /\ \E ok \in BOOLEAN :
         IF ok /\ checked_out
           THEN /\ impedance' = ImpedanceRaster(gdb["walk_net_lines"].rows)
                /\ pc' = "travel_time"
                /\ UNCHANGED <<exc, ret, checked_out>>
           ELSE /\ Fail("ExecuteError")
                /\ UNCHANGED impedance
    /\ UNCHANGED <<files, call, gdb, log, travel_time, centroids, spatial_status>>
    /\ UNCHANGED notAnalysis

\* line 328: calculate_travel_time.  sa.CostDistance writes a travel time or
\* NoData to every cell; a source cell holds 0.  With no source at all the
\* tool either raises or leaves every cell NoData.
CalculateTravelTime ==
    /\ pc = "travel_time"
    /\ LET sources == {CellOf(gdb["stops_pts"].rows[k].shape.pts[1]) :
                         k \in 1..Len(gdb["stops_pts"].rows)} IN
       \E ok \in BOOLEAN, ras \in [Cells -> TimeVals] :
         IF ok
           THEN /\ \A c \in sources : ras[c] = Minutes(0)
                /\ sources = {} => ras = NoDataRaster
                /\ travel_time' = ras
                /\ pc' = "building_times"
                /\ UNCHANGED <<exc, ret, checked_out>>
           ELSE /\ ras = NoDataRaster
                /\ travel_time' = travel_time
                /\ Fail("ExecuteError")
    /\ UNCHANGED <<files, call, gdb, log, centroids, spatial_status, impedance>>
    /\ UNCHANGED notAnalysis

\* lines 330-333 and 339: calculate_building_travel_times, the return of
\* its result and the check-in of the finally clause
CalculateBuildingTravelTimes ==
    /\ pc = "building_times"
    /\ centroids' = BuildingCentroids(gdb["buildings_polys"].rows, travel_time)
    /\ ret' = [kind |-> "path", path |-> "building_centroids_time",
               accepted |-> 0, attempted |-> 0]
    /\ pc' = "done"
    /\ checked_out' = FALSE
    /\ UNCHANGED <<files, call, gdb, exc, log, travel_time, spatial_status, impedance>>
    /\ UNCHANGED notAnalysis

AnalysisNext ==
    \/ Start
    \/ ImportStops
    \/ ImportWalk
    \/ ImportBuildings
    \/ CreateImpedance
    \/ CalculateTravelTime
    \/ CalculateBuildingTravelTimes

SpecAnalysis == AnalysisInit /\ [][AnalysisNext]_vars

\* one call of import_geojson on an input file, in a fresh geodatabase or
\* in one an earlier run has written to
ImportInit ==
    /\ RetryIdle
    /\ SpeedIdle
    /\ RuralIdle
    /\ TravelIdle
    /\ GraphIdle
    /\ OverpassIdle
    /\ BatchIdle
    /\ \E f \in SeqUpTo(ImportFeatures, MaxFeatures), o \in Overrides :
         /\ files = [stops |-> << >>, walk |-> << >>, buildings |-> f]
         /\ call = [input_path |-> "buildings", output_name |-> "buildings_polys",
                    geometry_type_override |-> o]
    /\ gdb \in {EmptyGdb, StaleGdb}
    /\ pc = "import_call"
    /\ ret = NoReturn
    /\ exc = ""
    /\ log = << >>
    /\ travel_time = NoDataRaster
    /\ centroids = << >>
    /\ checked_out = FALSE
    /\ spatial_status = "Available"
    /\ impedance = NoDataRaster

ImportCall ==
    /\ pc = "import_call"
    /\ \E degenerate_kept \in BOOLEAN :
       LET r == ImportGeojson(files[call.input_path], call.output_name,
                              call.geometry_type_override, gdb, degenerate_kept) IN
         /\ gdb' = r.gdb
         /\ log' = log \o r.log
         /\ ret' = r.ret
         /\ exc' = r.raised
         /\ pc' = IF r.raised # "" THEN "import_raised" ELSE "import_returned"
    /\ UNCHANGED <<files, call, travel_time, centroids, checked_out,
                   spatial_status, impedance>>
    /\ UNCHANGED notAnalysis

ImportNext == ImportCall

SpecImport == ImportInit /\ [][ImportNext]_vars

--------------------------------------------------------------------------
(* process_gmina: the service-area solve *)

\* Workspace.__init__: self.walking_speed_kmh = 5.0
walking_speed_kmh == 5

\* line 57: meters_per_min = (model.walking_speed_kmh * 1000.0) / 60.0
MetersPerMin(S) == Fraction(S * 1000, 60)

meters_per_min == MetersPerMin(walking_speed_kmh)

CutoffMetersPerSecond(c) == Fraction(c * meters_per_min.num, meters_per_min.den * 60)

\* line 58: c * meters_per_min, the cutoff handed to run_service_area
CutoffMeters(c) == Fraction(c * meters_per_min.num, meters_per_min.den)

Beyond(L, cutoff_m) == L * cutoff_m.den >= cutoff_m.num

\* is a length of L metres within a cutoff in metres?
Within(L, cutoff_m) == L * cutoff_m.den <= cutoff_m.num

Nodes == 0..MaxNode

\* the node pairs an undirected edge may join
Pairs == {p \in Nodes \X Nodes : p[1] < p[2]}

\* the edge lengths of the model, in metres
EdgeLengths == {100, 500}

\* the cutoff lists of the model, in minutes: the list process_gmina solves
\* for, and shorter cutoffs that tell nodes 100 m apart from each other
CutoffLists == {<<5, 10, 15>>, <<2, 3>>, <<3, 10>>, <<2, 5, 15>>}

IsIncreasing(cs) == \A i \in 1..(Len(cs) - 1) : cs[i] < cs[i + 1]

\* the length of the edge between two nodes, 0 for none
Len2(a, b) == IF a < b THEN edge_len[<<a, b>>]
              ELSE IF b < a THEN edge_len[<<b, a>>] ELSE 0

Neighbours(u) == {v \in Nodes : Len2(u, v) > 0}

GraphInit ==
    /\ RetryIdle
    /\ SpeedIdle
    /\ RuralIdle
    /\ TravelIdle
    /\ AnalysisIdle
    /\ OverpassIdle
    /\ BatchIdle
    /\ edge_len \in [Pairs -> {0} \cup EdgeLengths]
    /\ stops \in SUBSET Nodes
    /\ cutoffs \in {cs \in CutoffLists : IsIncreasing(cs)}
    /\ dist = [n \in Nodes |-> 0]
    /\ labelled = stops
    /\ settled = {}
    /\ service_area = << >>
    /\ gpc = "solve"

\* the labelled node that is settled next: least recorded distance, and the
\* lowest node identifier among equals
NextNode ==
    CHOOSE u \in labelled \ settled :
      \A v \in labelled \ settled :
        dist[u] < dist[v] \/ (dist[u] = dist[v] /\ u <= v)

\* One step of the label-setting relaxation: settle the nearest labelled
\* node and relax its edges.
Settle ==
    /\ gpc = "solve"
    /\ labelled \ settled # {}
    /\ LET u == NextNode
           better == {v \in Neighbours(u) :
                        v \notin labelled \/ dist[u] + Len2(u, v) < dist[v]}
       IN /\ settled' = settled \cup {u}
          /\ labelled' = labelled \cup better
          /\ dist' = [v \in Nodes |->
                        IF v \in better THEN dist[u] + Len2(u, v) ELSE dist[v]]
    /\ UNCHANGED <<edge_len, stops, cutoffs, service_area, gpc>>
    /\ UNCHANGED notGraph

\* the reachable node set of a cutoff of cutoff_m metres
ReachableNodes(cutoff_m) == {n \in labelled : Within(dist[n], cutoff_m)}

\* lines 58-67: the solve ends, and run_service_area has a reachable set for
\* every cutoff that process_gmina handed to it
Finish ==
    /\ gpc = "solve"
    /\ labelled \ settled = {}
    /\ service_area' = [i \in 1..Len(cutoffs) |-> ReachableNodes(CutoffMeters(cutoffs[i]))]
    /\ gpc' = "done"
    /\ UNCHANGED <<edge_len, stops, cutoffs, dist, labelled, settled>>
    /\ UNCHANGED notGraph

GraphNext ==
    \/ Settle
    \/ Finish

SpecGraph == GraphInit /\ [][GraphNext]_vars

--------------------------------------------------------------------------
(* The wrapper of utils.fallback as a state machine *)

RetryInit ==
    /\ fn \in DirectFns \cup DownloadFns
    /\ IF fn = "func"
         THEN /\ max_retries \in 1..MaxRetriesBound
              /\ initial_delay \in 1..MaxInitialDelay
              /\ backoff_factor \in 1..MaxBackoff
         ELSE /\ max_retries = DefaultMaxRetries
              /\ initial_delay = DefaultInitialDelay
              /\ backoff_factor = DefaultBackoffFactor
    /\ attempt = 1
    /\ delay = initial_delay
    /\ last_exception = NoException
    /\ wpc = IF fn \in DirectFns THEN "try" ELSE "idle"
    /\ o_attempt = 1
    /\ o_delay = initial_delay
    /\ o_last_exception = NoException
    /\ opc = IF fn \in DirectFns THEN "none" ELSE "try"
    /\ outcomes = << >>
    /\ o_calls = 0
    /\ sleeps = << >>
    /\ raised = NoException
    /\ AnalysisIdle
    /\ SpeedIdle
    /\ RuralIdle
    /\ TravelIdle
    /\ GraphIdle
    /\ OverpassIdle
    /\ BatchIdle

\* wrapper, line 15-17: one invocation of the wrapped coroutine.  For
\* download_overpass the invocation sends one HTTP request to Overpass.
Invoke ==
    /\ wpc = "try"
    /\ \E out \in Outcomes :
         LET n == Len(outcomes) + 1 IN
         /\ outcomes' = Append(outcomes, out)
         /\ IF out = "ok"
              THEN /\ wpc' = ReturnAtOnce(attempt, max_retries)
                   /\ UNCHANGED <<last_exception, attempt, raised>>
              ELSE IF Caught(out)
                THEN /\ last_exception' = Exc(out, n)
                     /\ raised' = raised
                     /\ IF ShouldSleep(attempt, max_retries)
                          THEN wpc' = "sleep" /\ attempt' = attempt
                          ELSE IF HasNextAttempt(attempt, max_retries)
                            THEN wpc' = "try" /\ attempt' = attempt + 1
                            ELSE wpc' = "exhausted" /\ attempt' = attempt
                ELSE /\ wpc' = "raised"
                     /\ raised' = Exc(out, n)
                     /\ UNCHANGED <<last_exception, attempt>>
    /\ UNCHANGED <<fn, max_retries, initial_delay, backoff_factor, delay,
                   o_attempt, o_delay, o_last_exception, opc, o_calls, sleeps>>
    /\ UNCHANGED notRetry

\* wrapper, line 19-20: the sleep between two attempts, then the next attempt
Sleep ==
    /\ wpc = "sleep"
    /\ sleeps' = Append(sleeps, delay)
    /\ delay' = NextDelay(delay, backoff_factor)
    /\ IF HasNextAttempt(attempt, max_retries)
         THEN wpc' = "try" /\ attempt' = attempt + 1
         ELSE wpc' = "exhausted" /\ attempt' = attempt
    /\ UNCHANGED <<fn, max_retries, initial_delay, backoff_factor,
                   last_exception, o_attempt, o_delay, o_last_exception, opc,
                   outcomes, o_calls, raised>>
    /\ UNCHANGED notRetry

\* wrapper, line 21: raise last_exception
RaiseLast ==
    /\ wpc = "exhausted"
    /\ raised' = last_exception
    /\ wpc' = "raised"
    /\ UNCHANGED <<fn, max_retries, initial_delay, backoff_factor,
                   attempt, delay, last_exception,
                   o_attempt, o_delay, o_last_exception, opc,
                   outcomes, o_calls, sleeps>>
    /\ UNCHANGED notRetry

\* The enclosing wrapper invokes its download (fetchers.py 158-177 and the
\* like): the body builds the query and awaits self.download_overpass, which
\* is a fresh call of the inner wrapper.
OuterInvoke ==
    /\ opc = "try"
    /\ o_calls' = o_calls + 1
    /\ opc' = "body"
    /\ attempt' = 1
    /\ delay' = initial_delay
    /\ last_exception' = NoException
    /\ wpc' = "try"
    /\ UNCHANGED <<fn, max_retries, initial_delay, backoff_factor,
                   o_attempt, o_delay, o_last_exception, outcomes, sleeps,
                   raised>>
    /\ UNCHANGED notRetry

\* what the enclosing wrapper does with an exception e of its body
OuterFail(e) ==
    IF Caught(e.cls)
      THEN /\ o_last_exception' = e
           /\ raised' = NoException
           /\ IF ShouldSleep(o_attempt, max_retries)
                THEN opc' = "sleep" /\ o_attempt' = o_attempt
                ELSE IF HasNextAttempt(o_attempt, max_retries)
                  THEN opc' = "try" /\ o_attempt' = o_attempt + 1
                  ELSE opc' = "exhausted" /\ o_attempt' = o_attempt
      ELSE /\ opc' = "raised"
           /\ raised' = e
           /\ UNCHANGED <<o_last_exception, o_attempt>>

\* The body of the download resumes after download_overpass: an exception of
\* download_overpass leaves the body; otherwise _overpass_to_geojson converts
\* the saved file, which may raise too (a payload that is no JSON).
OuterResume ==
    /\ opc = "body"
    /\ wpc \in {"returned", "raised"}
    /\ wpc' = "idle"
    /\ IF wpc = "raised"
         THEN OuterFail(raised)
         ELSE \E conv \in {"ok", "Exception"} :
                IF conv = "ok"
                  THEN /\ opc' = "returned"
                       /\ UNCHANGED <<o_last_exception, o_attempt, raised>>
                  ELSE OuterFail(Exc(conv, Len(outcomes)))
    /\ UNCHANGED <<fn, max_retries, initial_delay, backoff_factor,
                   attempt, delay, last_exception, o_delay,
                   outcomes, o_calls, sleeps>>
    /\ UNCHANGED notRetry

OuterSleep ==
    /\ opc = "sleep"
    /\ sleeps' = Append(sleeps, o_delay)
    /\ o_delay' = NextDelay(o_delay, backoff_factor)
    /\ IF HasNextAttempt(o_attempt, max_retries)
         THEN opc' = "try" /\ o_attempt' = o_attempt + 1
         ELSE opc' = "exhausted" /\ o_attempt' = o_attempt
    /\ UNCHANGED <<fn, max_retries, initial_delay, backoff_factor,
                   attempt, delay, last_exception, wpc, o_last_exception,
                   outcomes, o_calls, raised>>
    /\ UNCHANGED notRetry

OuterRaiseLast ==
    /\ opc = "exhausted"
    /\ raised' = o_last_exception
    /\ opc' = "raised"
    /\ UNCHANGED <<fn, max_retries, initial_delay, backoff_factor,
                   attempt, delay, last_exception, wpc,
                   o_attempt, o_delay, o_last_exception,
                   outcomes, o_calls, sleeps>>
    /\ UNCHANGED notRetry

RetryNext ==
    \/ Invoke
    \/ Sleep
    \/ RaiseLast
    \/ OuterInvoke
    \/ OuterResume
    \/ OuterSleep
    \/ OuterRaiseLast

SpecRetry == RetryInit /\ [][RetryNext]_vars

--------------------------------------------------------------------------
(* fetchers._overpass_to_geojson *)

\* A point of an Overpass geometry is [lat |-> .., lon |-> ..].  An element
\* is [type, has_lat, has_lon, lat, lon, has_geometry, geometry,
\* has_members, members, has_tags, tags]; the has_ fields say whether the
\* key is in the element.  A member is [type, has_geometry, geometry, role].
Pt(k) == [lat |-> 50 + k, lon |-> 20 + k]

Element(type, has_latlon, p, has_geometry, geometry, has_members, members, tags) ==
    [type |-> type, has_lat |-> has_latlon, has_lon |-> has_latlon,
     lat |-> p.lat, lon |-> p.lon,
     has_geometry |-> has_geometry, geometry |-> geometry,
     has_members |-> has_members, members |-> members,
     has_tags |-> tags # "", tags |-> tags]

Member(type, has_geometry, geometry, role) ==
    [type |-> type, has_geometry |-> has_geometry, geometry |-> geometry,
     role |-> role]

\* line 31: tags = el.get("tags", {})
EmptyTags == "{}"
TagsOf(el) == IF el.has_tags THEN el.tags ELSE EmptyTags

LatLon(pt) == <<pt.lat, pt.lon>>

\* lines 36, 41 and 54: [pt["lon"], pt["lat"]]
LonLat(pt) == <<pt.lon, pt.lat>>

\* lines 41 and 54: the coordinate list of a geometry
Coords(geometry) == [k \in 1..Len(geometry) |-> LonLat(geometry[k])]

\* lines 57-58: "if coords[0] != coords[-1]: coords.append(coords[0])"
CloseRing(coords) ==
    IF coords[1] # coords[Len(coords)] THEN Append(coords, coords[1]) ELSE coords

IsRingRole(member) == member.role \in {"outer", "inner"}

\* line 59: "if member.get("role") == "outer""
IsOuter(member) == member.role = "outer"

\* lines 51-60: the loop over the members of a relation, from member i on
RECURSIVE OuterRings(_, _, _)
OuterRings(members, i, outer_rings) ==
    IF i > Len(members)
      THEN outer_rings
      ELSE LET member == members[i] IN
           IF member.type # "way" \/ ~member.has_geometry
             THEN OuterRings(members, i + 1, outer_rings)
           ELSE IF Len(Coords(member.geometry)) = 0
             THEN OuterRings(members, i + 1, outer_rings)
           ELSE IF IsOuter(member)
             THEN OuterRings(members, i + 1,
                             Append(outer_rings, CloseRing(Coords(member.geometry))))
           ELSE OuterRings(members, i + 1, outer_rings)

GeoFeature(type, coordinates, properties) ==
    [type |-> "Feature",
     geometry |-> [type |-> type, coordinates |-> coordinates],
     properties |-> properties]

\* lines 62-67: the features of a relation with the outer rings found
RelationFeatures(outer_rings, tags) ==
    IF Len(outer_rings) = 0
      THEN << >>
    ELSE IF Len(outer_rings) = 1
      THEN << GeoFeature("Polygon", <<outer_rings[1]>>, tags) >>
    ELSE << GeoFeature("MultiPolygon",
                       [k \in 1..Len(outer_rings) |-> <<outer_rings[k]>>], tags) >>

\* lines 31-67: the features appended for one element
ElementFeatures(el) ==
    IF el.type = "node" /\ el.has_lat /\ el.has_lon
      THEN << GeoFeature("Point", LonLat([lat |-> el.lat, lon |-> el.lon]), TagsOf(el)) >>
    ELSE IF el.type = "way" /\ el.has_geometry
      THEN << GeoFeature("LineString", Coords(el.geometry), TagsOf(el)) >>
    ELSE IF el.type = "relation" /\ el.has_members
      THEN RelationFeatures(OuterRings(el.members, 1, << >>), TagsOf(el))
    ELSE << >>

\* lines 29-67: the loop over the elements, from element i on
RECURSIVE ConvertLoop(_, _, _)
ConvertLoop(els, i, features) ==
    IF i > Len(els)
      THEN features
      ELSE ConvertLoop(els, i + 1, features \o ElementFeatures(els[i]))

\* The elements of the payloads of the model: nodes with and without
\* coordinates, ways with, with an empty and without a geometry, relations
\* whose members are open and closed outer rings, inner rings, members
\* without a geometry and node members, and an element of another type.
OpenWay == <<Pt(1), Pt(2), Pt(3)>>
ClosedWay == <<Pt(4), Pt(5), Pt(6), Pt(4)>>

Relation(members) == Element("relation", FALSE, Pt(0), FALSE, << >>, TRUE, members, "building")

ElementSet ==
    {Element("node", TRUE, Pt(1), FALSE, << >>, FALSE, << >>, "bus_stop"),
     Element("node", TRUE, Pt(2), FALSE, << >>, FALSE, << >>, ""),
     Element("node", FALSE, Pt(0), FALSE, << >>, FALSE, << >>, "bus_stop"),
     Element("way", FALSE, Pt(0), TRUE, <<Pt(3), Pt(1), Pt(2)>>, FALSE, << >>, "footway"),
     Element("way", FALSE, Pt(0), TRUE, << >>, FALSE, << >>, "footway"),
     Element("way", FALSE, Pt(0), FALSE, << >>, FALSE, << >>, "footway"),
     Element("area", FALSE, Pt(0), FALSE, << >>, FALSE, << >>, ""),
     Element("relation", FALSE, Pt(0), FALSE, << >>, FALSE, << >>, "building"),
     Relation(<< >>),
     Relation(<<Member("way", TRUE, OpenWay, "outer")>>),
     Relation(<<Member("way", TRUE, ClosedWay, "outer")>>),
     Relation(<<Member("way", TRUE, OpenWay, "outer"),
                Member("way", TRUE, ClosedWay, "outer")>>),
     Relation(<<Member("way", TRUE, ClosedWay, "inner")>>),
     Relation(<<Member("way", TRUE, ClosedWay, "outer"),
                Member("way", TRUE, OpenWay, "inner")>>),
     Relation(<<Member("way", TRUE, << >>, "outer"),
                Member("node", FALSE, << >>, "outer"),
                Member("way", FALSE, << >>, "outer"),
                Member("way", TRUE, <<Pt(1)>>, "outer")>>)}

\* _overpass_to_geojson is called on a payload
OverpassInit ==
    /\ RetryIdle
    /\ SpeedIdle
    /\ RuralIdle
    /\ TravelIdle
    /\ AnalysisIdle
    /\ GraphIdle
    /\ BatchIdle
    /\ elements \in SeqUpTo(ElementSet, MaxElements)
    /\ geojson_out = << >>
    /\ cvpc = "start"

\* lines 25-76: the payload is read, converted and written to dst
OverpassToGeojson ==
    /\ cvpc = "start"
    /\ geojson_out' = ConvertLoop(elements, 1, << >>)
    /\ cvpc' = "written"
    /\ UNCHANGED elements
    /\ UNCHANGED notOverpass

OverpassNext == OverpassToGeojson

SpecOverpass == OverpassInit /\ [][OverpassNext]_vars

--------------------------------------------------------------------------
(* run_all_gminas_service_area: process_gmina and main *)

\* lines 44-47: the input files of an area; <<0, "index">> is INDEX_PATH
InputFileNames == <<"stops", "boundary", "road", "buildings">>
IndexFile == <<0, "index">>
AreaFile(a, f) == <<a, f>>

RequiredWithoutBoundary == <<"stops", "road", "buildings">>

\* line 49: "for p in (stops, boundary, road, buildings)"
RequiredFiles == <<"stops", "boundary", "road", "buildings">>

\* line 50: "if not p.exists()"
MissingOf(a) ==
    {k \in 1..Len(RequiredFiles) : AreaFile(a, RequiredFiles[k]) \notin present}

\* the counts of accessible and of residential buildings that
\* calculate_building_access may find
AccessCounts == {<<0, 0>>, <<1, 3>>, <<2, 3>>, <<1, 1>>}

\* the aggregate percentage 100 * accessible / total, 0 for no building
AccessPercentage(accessible, total) ==
    IF total = 0 THEN Fraction(0, 1) ELSE Fraction(100 * accessible, total)

\* a line of the summary file: the header of line 98 or a row of line 102
Header == [kind |-> "header", name |-> 0, whole |-> 0, decimals |-> << >>]
Row(name, text) ==
    [kind |-> "row", name |-> name, whole |-> text.whole, decimals |-> text.decimals]

\* the number of hundredths nearest to a fraction (no fraction of the model
\* lies half way between two)
Hundredths(x) == (2 * 100 * x.num + x.den) \div (2 * x.den)

Format1(x) ==
    [whole |-> Hundredths(x) \div 100, decimals |-> <<(Hundredths(x) \div 10) % 10>>]

\* line 102: f"{access_pct:.2f}"
Format2(x) ==
    [whole |-> Hundredths(x) \div 100,
     decimals |-> <<(Hundredths(x) \div 10) % 10, Hundredths(x) % 10>>]

\* the summary an earlier run left in output_csv
StaleSummary == <<Header, Row(1, [whole |-> 99, decimals |-> <<9, 9>>])>>

\* the files of area a, all of them (miss = 0) or all but the miss-th
FilesOf(a, miss) ==
    {AreaFile(a, InputFileNames[k]) : k \in (1..Len(InputFileNames)) \ {miss}}

\* main is called: the index lists the areas 1..n; every area has its input
\* files or lacks one of them; the summary file is absent or left by an
\* earlier run
BatchInit ==
    /\ RetryIdle
    /\ SpeedIdle
    /\ RuralIdle
    /\ TravelIdle
    /\ AnalysisIdle
    /\ GraphIdle
    /\ OverpassIdle
    /\ \E n \in 0..MaxAreas, has_index \in BOOLEAN :
         /\ has_index \/ n = 0
         /\ index = [k \in 1..n |-> k]
         /\ \E miss \in [1..n -> 0..Len(InputFileNames)] :
              present = (IF has_index THEN {IndexFile} ELSE {})
                        \cup UNION {FilesOf(a, miss[a]) : a \in 1..n}
    /\ pct = [a \in Areas |-> Fraction(0, 1)]
    /\ bi = 0
    /\ bpc = "start"
    /\ b_exc = ""
    /\ workspace = NoPath
    /\ workspace_gdb = NoPath
    /\ env_workspace = NoPath
    /\ gdbs = [p \in GdbPaths |-> 0]
    /\ used_gdb = [a \in Areas |-> NoPath]
    /\ solved = {}
    /\ summary \in {<< >>, StaleSummary}

\* an exception leaves main; the with block closes the summary file
BatchRaise(e) ==
    /\ b_exc' = e
    /\ bpc' = "raised"

\* main, lines 84-98: the index is read, the pipeline object is made
\* (Workspace.__init__, lines 10-12 and 31, keeps the path in self.workspace
\* and in arcpy.env.workspace), the summary file is opened for writing and
\* the header is written
MainStart ==
    /\ bpc = "start"
    /\ IF IndexFile \notin present
         THEN /\ BatchRaise("FileNotFoundError")
              /\ UNCHANGED <<workspace, env_workspace, summary, bi>>
       ELSE IF Len(index) = 0
         THEN /\ BatchRaise("ValueError")
              /\ UNCHANGED <<workspace, env_workspace, summary, bi>>
       ELSE /\ workspace' = OutputGdb
            /\ env_workspace' = OutputGdb
            /\ summary' = <<Header>>
            /\ bi' = 1
            /\ bpc' = "check"
            /\ UNCHANGED b_exc
    /\ UNCHANGED <<index, present, pct, workspace_gdb, gdbs, used_gdb, solved>>
    /\ UNCHANGED notBatch

\* process_gmina, lines 41-51: the input files are looked for
CheckFiles ==
    /\ bpc = "check"
    /\ IF MissingOf(index[bi]) # {}
         THEN BatchRaise("FileNotFoundError")
         ELSE bpc' = "assign" /\ UNCHANGED b_exc
    /\ UNCHANGED <<index, present, pct, bi, workspace, workspace_gdb,
                   env_workspace, gdbs, used_gdb, solved, summary>>
    /\ UNCHANGED notBatch

\* lines 53-54: model.workspace_gdb = str(gdb_path)
AssignWorkspace ==
    /\ bpc = "assign"
    /\ workspace_gdb' = AreaGdb(index[bi])
    /\ bpc' = "network"
    /\ UNCHANGED <<index, present, pct, bi, b_exc, workspace, env_workspace,
                   gdbs, used_gdb, solved, summary>>
    /\ UNCHANGED notBatch

\* the geodatabase the methods of Workspace write to: self.workspace (lines
\* 59, 64 and 130), which is arcpy.env.workspace too (line 31)
EffectiveWorkspace == workspace

\* line 56: build_network_dataset_from_roads writes the network dataset of
\* the area to the workspace
BuildNetwork ==
    /\ bpc = "network"
    /\ solved' = solved \cup {index[bi]}
    /\ gdbs' = [gdbs EXCEPT ![EffectiveWorkspace] = index[bi]]
    /\ used_gdb' = [used_gdb EXCEPT ![index[bi]] = EffectiveWorkspace]
    /\ bpc' = "service_area"
    /\ UNCHANGED <<index, present, pct, bi, b_exc, workspace, workspace_gdb,
                   env_workspace, summary>>
    /\ UNCHANGED notBatch

\* lines 61-72: run_service_area and calculate_building_access read and
\* write the workspace and give the access percentage of the area
SolveAndClassify ==
    /\ bpc = "service_area"
    /\ gdbs' = [gdbs EXCEPT ![EffectiveWorkspace] = index[bi]]
    /\ \E counts \in AccessCounts :
         pct' = [pct EXCEPT ![index[bi]] = AccessPercentage(counts[1], counts[2])]
    /\ bpc' = "write"
    /\ UNCHANGED <<index, present, bi, b_exc, workspace, workspace_gdb,
                   env_workspace, used_gdb, solved, summary>>
    /\ UNCHANGED notBatch

\* lines 100-105: the row of the area is written and the loop goes on
WriteRow ==
    /\ bpc = "write"
    /\ summary' = Append(summary, Row(index[bi], Format2(pct[index[bi]])))
    /\ bi' = bi + 1
    /\ bpc' = IF bi < Len(index) THEN "check" ELSE "done"
    /\ UNCHANGED <<index, present, pct, b_exc, workspace, workspace_gdb,
                   env_workspace, gdbs, used_gdb, solved>>
    /\ UNCHANGED notBatch

BatchNext ==
    \/ MainStart
    \/ CheckFiles
    \/ AssignWorkspace
    \/ BuildNetwork
    \/ SolveAndClassify
    \/ WriteRow

SpecBatch == BatchInit /\ [][BatchNext]_vars

\* a call of import_geojson or a batch run, each of them possibly after an
\* earlier run
SpecRerun == (ImportInit \/ BatchInit) /\ [][ImportNext \/ BatchNext]_vars

--------------------------------------------------------------------------
(* The conversions between minutes and metres *)

\* the cutoffs in minutes of process_gmina, line 58
ServiceCutoffs == <<5, 10, 15>>

\* line 58: cutoffs = [c * meters_per_min for c in [5, 10, 15]]
CutoffsInMeters(S) ==
    [i \in 1..Len(ServiceCutoffs) |->
        Fraction(ServiceCutoffs[i] * MetersPerMin(S).num, MetersPerMin(S).den)]

SpeedMpm(S) == Fraction(S * 1000, 60)

\* calculate_travel_time, line 237: speed_mps = (walking_speed_kmh * 1000) / 3600.0
SpeedMps(S) == Fraction(S * 1000, 3600)

\* line 238: min_per_meter_network = (1.0 / speed_mps) / 60.0
MinPerMeterNetwork(S) == Fraction(SpeedMps(S).den, SpeedMps(S).num * 60)

\* line 242: cost_surface_vals = base_imp * min_per_meter_network, in a cell
\* whose impedance is cost
CostSurfaceVal(cost, S) ==
    Fraction(cost * MinPerMeterNetwork(S).num, MinPerMeterNetwork(S).den)

\* the walking speeds and the lengths of the model
Speeds == 1..MaxSpeedKmh
Lengths == {LengthStep * k : k \in 0..MaxLengthSteps}

SpeedInit ==
    /\ kmh \in Speeds
    /\ length_m \in Lengths
    /\ minutes_per_metre = Fraction(0, 1)
    /\ cutoffs_m = << >>
    /\ kpc = "start"
    /\ RetryIdle
    /\ AnalysisIdle
    /\ GraphIdle
    /\ OverpassIdle
    /\ BatchIdle
    /\ RuralIdle
    /\ TravelIdle

\* calculate_travel_time lines 237-242, for a cell of the walk network
ComputeCostSurface ==
    /\ kpc \in {"start", "converted"}
    /\ minutes_per_metre' = CostSurfaceVal(network_cost, kmh)
    /\ kpc' = IF kpc = "start" THEN "costed" ELSE "done"
    /\ UNCHANGED <<kmh, length_m, cutoffs_m>>
    /\ UNCHANGED notSpeed

\* process_gmina lines 57-58
ConvertCutoffs ==
    /\ kpc \in {"start", "costed"}
    /\ cutoffs_m' = CutoffsInMeters(kmh)
    /\ kpc' = IF kpc = "start" THEN "converted" ELSE "done"
    /\ UNCHANGED <<kmh, length_m, minutes_per_metre>>
    /\ UNCHANGED notSpeed

SpeedNext ==
    \/ ComputeCostSurface
    \/ ConvertCutoffs

SpecSpeed == SpeedInit /\ [][SpeedNext]_vars

--------------------------------------------------------------------------
(* One call of is_rural_gmina *)

DownloadIdle ==
    /\ gminas = << >>
    /\ rural_gminas = << >>
    /\ index_file = << >>
    /\ dir_files = {}
    /\ di = 0
    /\ dpc = "idle"
    /\ d_exc = ""
    /\ has_walk = FALSE

RuralInit ==
    /\ gmina_tags \in TagValues
    /\ rural = FALSE
    /\ rpc = "call"
    /\ DownloadIdle
    /\ RetryIdle
    /\ AnalysisIdle
    /\ GraphIdle
    /\ OverpassIdle
    /\ BatchIdle
    /\ SpeedIdle
    /\ TravelIdle

\* data_pipeline.py lines 57-69
IsRuralGmina ==
    /\ rpc = "call"
    /\ rural' = is_rural_gmina(gmina_tags)
    /\ rpc' = "returned"
    /\ UNCHANGED <<gmina_tags, gminas, rural_gminas, index_file, dir_files,
                   di, dpc, d_exc, has_walk>>
    /\ UNCHANGED notRural

RuralNext == IsRuralGmina

SpecRural == RuralInit /\ [][RuralNext]_vars

--------------------------------------------------------------------------
(* data_pipeline.OSM.download_rural_gminas_data *)

\* A gmina of fetch_gminas_in_voivodeship: its relation id, its tags and
\* whether the element had bounds (bbox is None without them).  The names of
\* the gminas of the model differ, so the directory out_dir / slug(name) of a
\* gmina is known by its id.
Gmina(id, tg, bbox) == [id |-> id, tags |-> tg, bbox |-> bbox]

\* the tags of the gminas of a voivodeship in the model
GminaTagValues ==
    {Tags(RuralCode, NoneValue, <<"D", "y", "w">>, NoneValue),
     Tags(UrbanCode, NoneValue, <<"D", "y", "w">>, NoneValue),
     Tags(NoneValue, NoneValue, <<"D", "y", "w">>, NoneValue)}

GminaLists ==
    UNION {[1..n -> {[tags |-> tg, bbox |-> b] : tg \in GminaTagValues, b \in BOOLEAN}] :
             n \in 1..MaxGminas}

\* run_all_gminas_service_area.py lines 44-47: the file names process_gmina
\* looks for in the directory of a gmina
FileNameOf(f) ==
    CASE f = "stops" -> "osm_stops.geojson"
      [] f = "boundary" -> "osm_boundary.geojson"
      [] f = "road" -> "osm_road_network.geojson"
      [] f = "buildings" -> "osm_buildings.geojson"

\* data_pipeline.py lines 127-130: the file names the downloads write
stops_path == "osm_stops.geojson"
walk_path == "osm_walk_network.geojson"
buildings_path == "osm_buildings.geojson"
boundary_path == "osm_boundary.geojson"

\* has_walk: whether the Fetcher object has a method download_osm_walk_network
\* (the class Fetcher of fetchers.py defines none)
DownloadInit ==
    /\ \E l \in GminaLists :
         gminas = [k \in 1..Len(l) |-> Gmina(k, l[k].tags, l[k].bbox)]
    /\ has_walk \in BOOLEAN
    /\ rural_gminas = << >>
    /\ index_file = << >>
    /\ dir_files = {}
    /\ di = 0
    /\ dpc = "fetch"
    /\ d_exc = ""
    /\ gmina_tags = NoTags
    /\ rural = FALSE
    /\ rpc = "idle"
    /\ RetryIdle
    /\ AnalysisIdle
    /\ GraphIdle
    /\ OverpassIdle
    /\ BatchIdle
    /\ SpeedIdle
    /\ TravelIdle

\* an exception e leaves download_rural_gminas_data
DownloadRaise(e) ==
    /\ d_exc' = e
    /\ dpc' = "raised"

RECURSIVE SelectRural(_)
\* line 109: [g for g in gminas if self.is_rural_gmina(g.get("tags", {}))]
SelectRural(gs) ==
    IF gs = << >> THEN << >>
    ELSE IF is_rural_gmina(Head(gs).tags)
      THEN <<Head(gs)>> \o SelectRural(Tail(gs))
      ELSE SelectRural(Tail(gs))

\* lines 106-114: the two fetches, which raise when their retries are used
\* up, the selection of the rural gminas and the writing of the index
FetchAndWriteIndex ==
    /\ dpc = "fetch"
    /\ \E ok \in BOOLEAN :
         IF ok
           THEN /\ rural_gminas' = SelectRural(gminas)
                /\ index_file' = SelectRural(gminas)
                /\ di' = 1
                /\ dpc' = "loop"
                /\ UNCHANGED d_exc
           ELSE /\ DownloadRaise("Exception")
                /\ UNCHANGED <<rural_gminas, index_file, di>>
    /\ UNCHANGED <<gmina_tags, rural, rpc, gminas, dir_files, has_walk>>
    /\ UNCHANGED notRural

\* lines 116-123: the next gmina of the loop; one without bbox is skipped
NextGmina ==
    /\ dpc = "loop"
    /\ IF di > Len(rural_gminas)
         THEN dpc' = "done" /\ di' = di
       ELSE IF ~rural_gminas[di].bbox
         THEN dpc' = "loop" /\ di' = di + 1
       ELSE dpc' = "stops" /\ di' = di
    /\ UNCHANGED <<gmina_tags, rural, rpc, gminas, rural_gminas, index_file,
                   dir_files, d_exc, has_walk>>
    /\ UNCHANGED notRural

\* one download of lines 132-135 into the directory of the current gmina
Download(at, path, then) ==
    /\ dpc = at
    /\ \E ok \in BOOLEAN :
         IF ok
           THEN /\ dir_files' = dir_files \cup {<<rural_gminas[di].id, path>>}
                /\ dpc' = then
                /\ UNCHANGED d_exc
           ELSE /\ DownloadRaise("Exception")
                /\ UNCHANGED dir_files
    /\ UNCHANGED <<gmina_tags, rural, rpc, gminas, rural_gminas, index_file,
                   di, has_walk>>
    /\ UNCHANGED notRural

\* line 132
DownloadStops == Download("stops", stops_path, "walk")

\* line 133: f.download_osm_walk_network raises AttributeError on an object
\* without the method
DownloadWalk ==
    IF has_walk
      THEN Download("walk", walk_path, "buildings")
      ELSE /\ dpc = "walk"
           /\ DownloadRaise("AttributeError")
           /\ UNCHANGED <<gmina_tags, rural, rpc, gminas, rural_gminas,
                          index_file, dir_files, di, has_walk>>
           /\ UNCHANGED notRural

\* line 134
DownloadBuildings == Download("buildings", buildings_path, "boundary")

\* line 135, and the step to the next gmina
DownloadBoundary ==
    /\ dpc = "boundary"
    /\ \E ok \in BOOLEAN :
         IF ok
           THEN /\ dir_files' = dir_files \cup {<<rural_gminas[di].id, boundary_path>>}
                /\ dpc' = "loop"
                /\ di' = di + 1
                /\ UNCHANGED d_exc
           ELSE /\ DownloadRaise("Exception")
                /\ UNCHANGED <<dir_files, di>>
    /\ UNCHANGED <<gmina_tags, rural, rpc, gminas, rural_gminas, index_file,
                   has_walk>>
    /\ UNCHANGED notRural

DownloadNext ==
    \/ FetchAndWriteIndex
    \/ NextGmina
    \/ DownloadStops
    \/ DownloadWalk
    \/ DownloadBuildings
    \/ DownloadBoundary

SpecDownload == DownloadInit /\ [][DownloadNext]_vars

--------------------------------------------------------------------------
(* Workspace.calculate_travel_time *)

\* line 18: self.cell_size = 3.0
cell_size == 3

\* line 230: max_time_min: int = 15
DefaultMaxTimeMin == 15

\* the values of max_time_min of the model
MaxTimes == {0, 1, DefaultMaxTimeMin}

\* the argument maximum_distance of CostDistance: None, or a limit
NoLimit == [limited |-> FALSE, v |-> 0]
Limit(v) == [limited |-> TRUE, v |-> v]

MaximumDistanceFromArgument(max_time) == Limit(max_time)

\* line 247: maximum_distance=None
MaximumDistance(max_time) == NoLimit

\* The cells of the model lie in a row.  CostDistance moves between
\* neighbouring cells that both hold a cost; cells a and b are connected when
\* no cell from one to the other is NoData.
Connected(a, b, cost) ==
    \A i \in Cells :
       ((a <= i /\ i <= b) \/ (b <= i /\ i <= a)) => ~cost[i].null

RECURSIVE TwiceImpedanceSum(_, _, _)
\* twice the impedance accumulated from cell a to cell b >= a: a move between
\* neighbours costs the cell size times the mean of their two costs
TwiceImpedanceSum(a, b, cost) ==
    IF a >= b THEN 0
    ELSE cell_size * (cost[a].v + cost[a + 1].v) + TwiceImpedanceSum(a + 1, b, cost)

\* the least accumulated cost from a source connected to cell c, in minutes:
\* the impedance is multiplied by min_per_meter_network (line 242)
LeastCost(src, c, cost, S) ==
    LET sums == {TwiceImpedanceSum(IF s <= c THEN s ELSE c,
                                   IF s <= c THEN c ELSE s, cost) :
                   s \in {x \in src : Connected(x, c, cost)}}
        best == CHOOSE x \in sums : \A y \in sums : x <= y
    IN  Fraction(best * MinPerMeterNetwork(S).num, 2 * MinPerMeterNetwork(S).den)

WithinLimit(t, lim) == ~lim.limited \/ t.num <= lim.v * t.den

\* sa.CostDistance(in_source_data, in_cost_raster, maximum_distance): each
\* cell holds the least accumulated cost from a source, and NoData when no
\* source reaches it or when that cost exceeds the limit
CostDistance(src, cost, S, lim) ==
    [c \in Cells |->
        IF \A s \in src : ~Connected(s, c, cost)
          THEN NoTime
        ELSE IF WithinLimit(LeastCost(src, c, cost, S), lim)
          THEN TimeValue(LeastCost(src, c, cost, S))
        ELSE NoTime]

\* lines 237-248: the raster calculate_travel_time saves
TravelTimeRaster(src, imp, max_time) ==
    CostDistance(src, imp, walking_speed_kmh, MaximumDistance(max_time))

\* the impedance rasters of the model: each cell holds the network cost, the
\* background cost or NoData
ImpedanceRasters ==
    [Cells -> {CellValue(network_cost), CellValue(background_cost), Null}]

TravelInit ==
    /\ stops_fc \in SUBSET Cells
    /\ impedance_raster \in ImpedanceRasters
    /\ max_time_min \in MaxTimes
    /\ travel_time_ras = NoTravelRaster
    /\ tpc = "call"
    /\ RetryIdle
    /\ AnalysisIdle
    /\ GraphIdle
    /\ OverpassIdle
    /\ BatchIdle
    /\ SpeedIdle
    /\ RuralIdle

\* calculate_travel_time, lines 230-252
CalculateTravelTimeCall ==
    /\ tpc = "call"
    /\ travel_time_ras' = TravelTimeRaster(stops_fc, impedance_raster, max_time_min)
    /\ tpc' = "saved"
    /\ UNCHANGED <<stops_fc, impedance_raster, max_time_min>>
    /\ UNCHANGED notTravel

TravelNext == CalculateTravelTimeCall

SpecTravel == TravelInit /\ [][TravelNext]_vars

--------------------------------------------------------------------------
(* Claims about utils.fallback and the wrapped downloads *)

RECURSIVE Pow(_, _)
Pow(b, n) == IF n = 0 THEN 1 ELSE b * Pow(b, n - 1)

\* initial_delay, initial_delay*backoff_factor, ...: one delay between each
\* two consecutive attempts of m
BackoffDelays(m, d0, b) == [i \in 1..(m - 1) |-> d0 * Pow(b, i - 1)]

IsPrefix(s, t) == Len(s) <= Len(t) /\ \A i \in 1..Len(s) : s[i] = t[i]

AllFailed == \A i \in 1..Len(outcomes) : Caught(outcomes[i])

\* C7: a call of one retry-wrapped operation whose every attempt fails (with
\* an exception of the classes the decorator retries) invokes the operation
\* exactly max_retries times, sleeps initial_delay, initial_delay *
\* backoff_factor, ... between consecutive attempts and not after the last
\* one, and raises the exception of the final attempt.
C7_RetryExhausts ==
    fn \in DirectFns =>
      /\ IsPrefix(sleeps, BackoffDelays(max_retries, initial_delay, backoff_factor))
      /\ AllFailed =>
           /\ Len(outcomes) <= max_retries
           /\ Len(sleeps) <= Len(outcomes)
           /\ Len(outcomes) <= Len(sleeps) + 1
           /\ wpc \in {"exhausted", "raised"} =>
                /\ Len(outcomes) = max_retries
                /\ sleeps = BackoffDelays(max_retries, initial_delay, backoff_factor)
           /\ wpc = "raised" =>
                raised = Exc(outcomes[max_retries], max_retries)

\* the default decorator has failed three times, slept 1 s then 2 s, and
\* raised the third exception
C7_Witness ==
    /\ fn = "download_overpass"
    /\ wpc = "raised"
    /\ AllFailed
    /\ Len(outcomes) = 3
    /\ sleeps = <<1, 2>>
    /\ raised = Exc("Exception", 3)

\* C8: one call of a feature download whose HTTP request fails every time
\* sends at most the fixed attempt count (3) of requests to Overpass before
\* the failure reaches the caller.
C8_AtMostThreeRequests ==
    ( /\ fn \in DownloadFns
      /\ opc = "raised"
      /\ \A i \in 1..Len(outcomes) : outcomes[i] = "Exception" )
    => Len(outcomes) <= DefaultMaxRetries

--------------------------------------------------------------------------
(* Claims about the raster analysis *)

\* the cutoffs of the reference, in minutes (process_gmina)
Cutoffs == <<5, 10, 15>>

MaxCutoff == Cutoffs[Len(Cutoffs)]

\* the allow-list of residential building tags
AllowList == {"apartments", "house", "residential", "detached",
              "semidetached_house", "terrace", "dormitory", "yes"}

CentroidsOf(i) == {k \in 1..Len(centroids) : centroids[k].src = i}

AccessibleCount == Cardinality({k \in 1..Len(centroids) : centroids[k].is_excluded = 0})

TotalCount == Len(centroids)

\* the aggregate of section 4.6: 100 * accessible / residential, 0 for none
AccessPct == IF TotalCount = 0 THEN 0 ELSE (100 * AccessibleCount) \div TotalCount

\* C1: a residential building centroid is marked is_excluded = 1 if and
\* only if its sampled travel time is missing or greater than the maximum
\* cutoff (15 minutes); a sampled value equal to the cutoff is accessible.
C1_ExcludedIffBeyondCutoff ==
    \A k \in 1..Len(centroids) :
      LET c == centroids[k] IN
      /\ c.walk_time_min = travel_time[c.cell]
      /\ c.is_excluded \in {0, 1}
      /\ c.is_excluded = 1 <=> (c.walk_time_min.null \/ c.walk_time_min.v > MaxCutoff)
      /\ c.walk_time_min = Minutes(MaxCutoff) => c.is_excluded = 0

\* a run ended with a centroid whose sampled travel time is exactly the
\* cutoff, and it is not excluded
C1_Witness ==
    /\ pc = "done"
    /\ \E k \in 1..Len(centroids) :
         centroids[k].walk_time_min = Minutes(15) /\ centroids[k].is_excluded = 0

\* C2: only buildings whose tag is in the allow-list appear in the result
\* set; a building with another tag counts neither as accessible nor in the
\* total, whatever the travel time at its position.
C2_OnlyResidentialCounted ==
    /\ \A k \in 1..Len(centroids) :
         /\ centroids[k].building \in AllowList
         /\ files.buildings[centroids[k].src].building \in AllowList
    /\ pc = "done" =>
         /\ \A i \in 1..Len(files.buildings) :
              files.buildings[i].building \notin AllowList => CentroidsOf(i) = {}
         /\ TotalCount =
              Cardinality({k \in 1..Len(gdb["buildings_polys"].rows) :
                             gdb["buildings_polys"].rows[k].building \in AllowList})
         /\ AccessibleCount <= TotalCount

\* a run ended with a house counted and a shed, standing on a cell that is
\* reached in 0 minutes, not counted
C2_Witness ==
    /\ pc = "done"
    /\ TotalCount = 1
    /\ AccessibleCount = 1
    /\ \E i \in 1..Len(files.buildings) :
         /\ files.buildings[i].building = "shed"
         /\ files.buildings[i].geometry.type = "Polygon"
         /\ travel_time[CellOf(files.buildings[i].geometry.polys[1][1][1])] = Minutes(0)

\* C3: with zero stops in the stops input (and the extension available)
\* the analysis completes without raising and yields an access percentage
\* of 0.
C3_ZeroStopsYieldZeroPercent ==
    (Len(files.stops) = 0 /\ spatial_status = "Available" /\ pc \in {"done", "raised"})
    => (pc = "done" /\ exc = "" /\ AccessPct = 0)

\* a polygonal geometry with a coordinate array that import_geojson can
\* make polygons of
WellFormedPolygonal(g) ==
    /\ g.coords = "array"
    /\ \/ g.type = "LineString" /\ Len(g.line) > 0
       \/ /\ g.type \in {"Polygon", "MultiPolygon"}
          /\ Len(g.polys) > 0
          /\ \A k \in 1..Len(g.polys) : Len(g.polys[k]) > 0

\* C4: every input building feature with an allow-listed tag (and a
\* well-formed geometry) yields exactly one centroid record: no building is
\* counted twice or lost.
C4_OneCentroidPerBuilding ==
    pc = "done" =>
      \A i \in 1..Len(files.buildings) :
        ( /\ files.buildings[i].building \in AllowList
          /\ WellFormedPolygonal(files.buildings[i].geometry) )
        => Cardinality(CentroidsOf(i)) = 1

--------------------------------------------------------------------------
(* Claims about import_geojson *)

\* a feature whose geometry is missing, null, empty or malformed
BadGeometry(g) ==
    \/ g.type \in {"<missing>", "<null>", "<empty>", "<nonobject>", "<notype>"}
    \/ g.coords = "null"
    \/ g.type = "Point" /\ Len(g.pt) < 2

\* a well-formed feature of the geometry kind the feature class holds
WellFormedFor(gtype, f) ==
    /\ ~BadGeometry(f.geometry)
    /\ f.building # "<props-null>"
    /\ \/ gtype = "POINT" /\ f.geometry.type = "Point"
       \/ gtype = "POLYLINE" /\ f.geometry.type = "LineString"
       \/ gtype = "POLYGON" /\ WellFormedPolygonal(f.geometry)

ImportEnded == pc \in {"import_returned", "import_raised"}

ImportedFeatures == files[call.input_path]

\* C9: one bad feature, at any position including the first, never aborts
\* the import: it completes without raising and inserts every other
\* well-formed feature.
C9_BadFeatureNeverAborts ==
    ( /\ ImportEnded
      /\ Len(ImportedFeatures) > 0
      /\ Cardinality({i \in 1..Len(ImportedFeatures) :
                        BadGeometry(ImportedFeatures[i].geometry)}) = 1 )
    => /\ pc = "import_returned"
       /\ exc = ""
       /\ \A i \in 1..Len(ImportedFeatures) :
            WellFormedFor(gdb[call.output_name].gtype, ImportedFeatures[i])
            => \E k \in 1..Len(gdb[call.output_name].rows) :
                 gdb[call.output_name].rows[k].src = i

\* C10: import_geojson returns the count of accepted features and the
\* count of attempted features, and the accepted count never exceeds the
\* attempted count.
C10_ReturnsAcceptedAndAttempted ==
    pc = "import_returned" =>
      /\ ret.kind = "counts"
      /\ ret.accepted = Len(gdb[call.output_name].rows)
      /\ ret.attempted = Len(ImportedFeatures)
      /\ ret.accepted <= ret.attempted
      /\ \A k \in 1..Len(log) : log[k].inserted <= log[k].attempted

--------------------------------------------------------------------------
(* Claims about the service-area solve *)

Infinity == 1000 * 1000

Min(S) == CHOOSE x \in S : \A y \in S : x <= y

\* the least length of a path of at most k edges from any stop to each
\* node, Infinity for none
RECURSIVE PathLength(_)
PathLength(k) ==
    IF k = 0
      THEN [n \in Nodes |-> IF n \in stops THEN 0 ELSE Infinity]
      ELSE LET p == PathLength(k - 1) IN
           [n \in Nodes |->
              Min({p[n]} \cup {p[m] + Len2(m, n) : m \in {x \in Neighbours(n) : p[x] < Infinity}})]

ShortestMeters == PathLength(MaxNode)

\* an edge of L metres takes L / (S * 1000 / 60) minutes: is that at most c?
WithinMinutes(L, c) == L * 60 <= c * walking_speed_kmh * 1000

\* C5: isochrone monotonicity: for any graph, any stop set and any two
\* cutoffs c1 < c2, the node set reachable within c1 is a subset of the set
\* reachable within c2.
C5_IsochroneMonotone ==
    gpc = "done" =>
      \A i, j \in 1..Len(cutoffs) :
        cutoffs[i] < cutoffs[j] => service_area[i] \subseteq service_area[j]

\* a solve for 5, 10 and 15 minutes ended with three different, growing
\* reachable sets
C5_Witness ==
    /\ gpc = "done"
    /\ cutoffs = <<5, 10, 15>>
    /\ service_area[1] # {}
    /\ service_area[1] # service_area[2]
    /\ service_area[2] # service_area[3]

\* three collinear nodes 100 m apart with the stop at node 0
IsCollinearScenario ==
    /\ MaxNode >= 2
    /\ \A p \in Pairs :
         edge_len[p] = IF p \in {<<0, 1>>, <<1, 2>>} THEN 100 ELSE 0
    /\ stops = {0}
    /\ cutoffs = <<2, 3>>

\* C6: the solve is a multi-source shortest path: every stop is at 0, each
\* node's recorded length is the least path length from any stop, the
\* reachable set of a cutoff is exactly the nodes whose minutes are at most
\* the cutoff; on three collinear nodes 100 m apart at 5 km/h with the stop
\* at node 0 and cutoffs 2 and 3, node 1 is reachable at both and node 2
\* only at 3.
C6_MultiSourceShortestPath ==
    gpc = "done" =>
      /\ \A n \in stops : n \in labelled /\ dist[n] = 0
      /\ [n \in Nodes |-> IF n \in labelled THEN dist[n] ELSE Infinity] = ShortestMeters
      /\ \A i \in 1..Len(cutoffs) :
           service_area[i] =
             {n \in Nodes : n \in labelled /\ WithinMinutes(dist[n], cutoffs[i])}
      /\ IsCollinearScenario =>
           /\ 1 \in service_area[1] /\ 1 \in service_area[2]
           /\ 2 \notin service_area[1] /\ 2 \in service_area[2]

\* the solve of the collinear scenario has ended
C6_Witness ==
    /\ gpc = "done"
    /\ IsCollinearScenario
    /\ dist[1] = 100
    /\ dist[2] = 200
    /\ service_area = << {0, 1}, {0, 1, 2} >>

--------------------------------------------------------------------------
(* Claims about _overpass_to_geojson *)

\* the way members with role outer that hold a ring
OuterMembers(el) ==
    IF el.has_members
      THEN SelectSeq(el.members,
                     LAMBDA m : /\ m.type = "way"
                                /\ m.has_geometry
                                /\ Len(m.geometry) > 0
                                /\ m.role = "outer")
      ELSE << >>

\* the ring of a member: its positions as [lon, lat], and the first one
\* again when first and last differ
RingOf(m) ==
    LET c == [k \in 1..Len(m.geometry) |-> <<m.geometry[k].lon, m.geometry[k].lat>>]
    IN IF c[1] = c[Len(c)] THEN c ELSE c \o <<c[1]>>

\* does an element yield a feature?
YieldsFeature(el) ==
    \/ el.type = "node" /\ el.has_lat /\ el.has_lon
    \/ el.type = "way" /\ el.has_geometry
    \/ el.type = "relation" /\ Len(OuterMembers(el)) > 0

\* the number of features the first i elements yield
FeatureIndex(i) == Cardinality({j \in 1..i : YieldsFeature(elements[j])})

\* C11: a relation yields a feature built of its way members with role
\* outer only, each ring closed by its first coordinate when first and
\* last differ: one outer ring gives a Polygon, two or more a MultiPolygon
\* with one polygon per outer ring, none gives no feature and no error.
C11_RelationOuterRings ==
    cvpc = "written" =>
      /\ Len(geojson_out) = FeatureIndex(Len(elements))
      /\ \A i \in 1..Len(elements) :
           LET el == elements[i]
               outer == OuterMembers(el)
           IN (el.type = "relation" /\ Len(outer) > 0) =>
                LET g == geojson_out[FeatureIndex(i)].geometry IN
                IF Len(outer) = 1
                  THEN /\ g.type = "Polygon"
                       /\ g.coordinates = << RingOf(outer[1]) >>
                  ELSE /\ g.type = "MultiPolygon"
                       /\ Len(g.coordinates) = Len(outer)
                       /\ \A k \in 1..Len(outer) :
                            g.coordinates[k] = << RingOf(outer[k]) >>

\* a relation with an open and a closed outer ring gave a MultiPolygon, and
\* a relation with an inner ring only gave nothing
C11_Witness ==
    /\ cvpc = "written"
    /\ Len(elements) = 2
    /\ elements[1].type = "relation" /\ Len(OuterMembers(elements[1])) = 2
    /\ elements[2].type = "relation" /\ elements[2].has_members
    /\ Len(elements[2].members) = 1 /\ Len(OuterMembers(elements[2])) = 0
    /\ Len(geojson_out) = 1
    /\ geojson_out[1].geometry.type = "MultiPolygon"
    /\ Len(geojson_out[1].geometry.coordinates[1][1]) = 4

\* C12: every node with lat and lon yields one Point feature [lon, lat],
\* every way with a geometry one LineString feature with its coordinates as
\* [lon, lat] in the original order, each feature carries the element's tags
\* as properties, and the features are in the order of the elements.
C12_NodesAndWaysInOrder ==
    cvpc = "written" =>
      /\ Len(geojson_out) = Cardinality({j \in 1..Len(elements) : YieldsFeature(elements[j])})
      /\ \A i \in 1..Len(elements) :
           LET el == elements[i]
               f == geojson_out[FeatureIndex(i)]
           IN /\ (el.type = "node" /\ el.has_lat /\ el.has_lon) =>
                   /\ f.geometry.type = "Point"
                   /\ f.geometry.coordinates = <<el.lon, el.lat>>
              /\ (el.type = "way" /\ el.has_geometry) =>
                   /\ f.geometry.type = "LineString"
                   /\ Len(f.geometry.coordinates) = Len(el.geometry)
                   /\ \A k \in 1..Len(el.geometry) :
                        f.geometry.coordinates[k] = <<el.geometry[k].lon, el.geometry[k].lat>>
              /\ YieldsFeature(el) =>
                   f.properties = IF el.has_tags THEN el.tags ELSE "{}"

\* a way followed by a node gave a LineString followed by a Point
C12_Witness ==
    /\ cvpc = "written"
    /\ Len(elements) = 2
    /\ elements[1].type = "way" /\ Len(elements[1].geometry) = 3
    /\ elements[2].type = "node" /\ elements[2].has_lat
    /\ Len(geojson_out) = 2
    /\ geojson_out[1].geometry.type = "LineString"
    /\ geojson_out[2].geometry.type = "Point"

--------------------------------------------------------------------------
(* Claims about the LineString rings of import_geojson *)

\* the import made a polygon feature class and returned
PolygonImportReturned ==
    /\ pc = "import_returned"
    /\ gdb[call.output_name].gtype = "POLYGON"

\* the LineString features of the imported file with a coordinate array
\* and properties
LineStringFeatures ==
    {i \in 1..Len(ImportedFeatures) :
       /\ ImportedFeatures[i].geometry.type = "LineString"
       /\ ImportedFeatures[i].geometry.coords = "array"
       /\ ImportedFeatures[i].building # "<props-null>"}

RowsOf(i) ==
    {k \in 1..Len(gdb[call.output_name].rows) : gdb[call.output_name].rows[k].src = i}

\* a line that is open and has three or more distinct positions is imported
OpenLinesImported ==
    \A i \in LineStringFeatures :
      LET line == ImportedFeatures[i].geometry.line IN
      (Len(line) > 0 /\ line[1] # line[Len(line)]
         /\ Cardinality({line[k] : k \in 1..Len(line)}) >= 3)
        => RowsOf(i) # {}

\* C13 as claimed: in a polygon import a LineString is never rejected for
\* being open; when first and last coordinate differ the ring is the line
\* with its first coordinate appended, and when they are equal the ring is
\* the line unchanged.
C13_ClosedWhenEndsDiffer ==
    PolygonImportReturned =>
      /\ OpenLinesImported
      /\ \A i \in LineStringFeatures : \A k \in RowsOf(i) :
           LET line == ImportedFeatures[i].geometry.line IN
           gdb[call.output_name].rows[k].shape.pts =
             IF line[1] # line[Len(line)] THEN line \o <<line[1]>> ELSE line

\* C13 as amended: in a polygon import a LineString is never rejected for
\* being open; the ring is the line unchanged when first and last
\* coordinate are equal and the line has more than two coordinates, and
\* the line with its first coordinate appended otherwise.
C13_ClosedUnlessRing ==
    PolygonImportReturned =>
      /\ OpenLinesImported
      /\ \A i \in LineStringFeatures : \A k \in RowsOf(i) :
           LET line == ImportedFeatures[i].geometry.line IN
           gdb[call.output_name].rows[k].shape.pts =
             IF Len(line) > 2 /\ line[1] = line[Len(line)]
               THEN line ELSE line \o <<line[1]>>

\* a polygon import closed an open line of three positions and kept a
\* closed ring as it was
C13_Witness ==
    /\ PolygonImportReturned
    /\ Len(ImportedFeatures) = 2
    /\ LineStringFeatures = {1, 2}
    /\ \E k \in RowsOf(1) :
         /\ Len(ImportedFeatures[1].geometry.line) = 3
         /\ Len(gdb[call.output_name].rows[k].shape.pts) = 4
    /\ \E k \in RowsOf(2) :
         gdb[call.output_name].rows[k].shape.pts = ImportedFeatures[2].geometry.line

--------------------------------------------------------------------------
(* Claims about the licence check and the impedance raster *)

\* C14: when the Spatial Analyst extension is reported with a status other
\* than Available, the run fails at once: an error is raised before the
\* extension is checked out and before any import or solver step runs.
C14_UnavailableLicenceFailsAtOnce ==
    (spatial_status # "Available" /\ pc # "idle") =>
      /\ pc \in {"start", "raised"}
      /\ gdb = EmptyGdb
      /\ log = << >>

\* the centre of a cell lies in the 2.5 m buffer of a line of the walk
\* network
Covered(c) ==
    \E k \in 1..Len(files.walk) :
      \E j \in 1..Len(files.walk[k].geometry.line) :
        LET p == files.walk[k].geometry.line[j] IN
        p <= NCells /\ ((p - 1) % NCells) + 1 = c

ImpedanceBuilt == pc \in {"travel_time", "building_times", "done"}

--------------------------------------------------------------------------
(* Claims about the batch run *)

\* an input file of the area at position k of the index is absent
LacksAFile(k) ==
    \E f \in {"stops", "boundary", "road", "buildings"} : <<index[k], f>> \notin present

\* the position of the first area of the index that lacks a file
IsFirstLacking(k) ==
    /\ k \in 1..Len(index)
    /\ LacksAFile(k)
    /\ \A j \in 1..(k - 1) : ~LacksAFile(j)

\* the summary file has been opened by this run
SummaryOpened == bpc \notin {"idle", "start"} /\ bi > 0

RowNames == {summary[k].name : k \in 2..Len(summary)}

\* C15: in batch mode the first area with a missing input file raises
\* FileNotFoundError, which ends the batch: no solver step runs for that
\* area, no later area is processed, and no row is written for the failing
\* area or a later one.
C15_MissingFileAbortsBatch ==
    \A k \in 1..Len(index) :
      (IsFirstLacking(k) /\ SummaryOpened) =>
        /\ bi <= k
        /\ bpc # "done"
        /\ (bi = k /\ bpc # "check") => (bpc = "raised" /\ b_exc = "FileNotFoundError")
        /\ \A j \in k..Len(index) : index[j] \notin solved /\ index[j] \notin RowNames

\* the second of three areas lacked its boundary file: the run ended with
\* FileNotFoundError, one row written and the third area untouched
C15_Witness ==
    /\ Len(index) = 3
    /\ IsFirstLacking(2)
    /\ <<index[2], "boundary">> \notin present
    /\ bpc = "raised"
    /\ b_exc = "FileNotFoundError"
    /\ solved = {index[1]}
    /\ Len(summary) = 2

\* a row holds the percentage of its area with two decimals
TwoDecimalsOf(row, x) ==
    /\ Len(row.decimals) = 2
    /\ \A d \in 1..2 : row.decimals[d] \in 0..9
    /\ LET h == 100 * row.whole + 10 * row.decimals[1] + row.decimals[2]
           diff == 2 * (h * x.den - 100 * x.num)
       IN diff <= x.den /\ -diff <= x.den

\* C16: at every point of a batch run the summary holds the header followed
\* by exactly one row per completed area, in index order, each percentage
\* with two decimals; after a complete run there is one row for every area
\* of the index.
C16_SummaryIsPrefixOfIndex ==
    SummaryOpened =>
      /\ Len(summary) >= 1
      /\ summary[1] = Header
      /\ Len(summary) - 1 = Cardinality({k \in 1..Len(index) : k < bi})
      /\ \A k \in 2..Len(summary) :
           /\ summary[k].kind = "row"
           /\ summary[k].name = index[k - 1]
           /\ TwoDecimalsOf(summary[k], pct[index[k - 1]])
      /\ bpc = "done" => Len(summary) = Len(index) + 1

\* a run of three areas is at its third area with two rows written, one of
\* them 33.33
C16_Witness ==
    /\ Len(index) = 3
    /\ bpc = "write"
    /\ bi = 3
    /\ Len(summary) = 3
    /\ \E k \in 2..3 : summary[k].whole = 33 /\ summary[k].decimals = <<3, 3>>

\* C17: in a batch run each area's analysis uses a workspace of its own:
\* after process_gmina has assigned the per-area path, the pipeline
\* object's workspace is that path, and the steps of an area write to the
\* geodatabase of that area only.
C17_WorkspacePerArea ==
    /\ bpc \in {"network", "service_area", "write"} =>
         /\ workspace = <<"data", index[bi]>>
         /\ env_workspace = <<"data", index[bi]>>
    /\ \A a \in solved : used_gdb[a] = <<"data", a>>
    /\ \A p \in GdbPaths : gdbs[p] # 0 => p = <<"data", gdbs[p]>>

\* C18: re-running on unchanged inputs gives identical results: the feature
\* classes import_geojson writes are those it writes in an empty
\* geodatabase, whatever an earlier run left there, and a complete batch
\* run leaves the header and one row per area, whatever the summary held.
C18_RerunGivesSameResult ==
    /\ pc = "import_returned" =>
         \E degenerate_kept \in BOOLEAN :
           LET fresh == ImportGeojson(files[call.input_path], call.output_name,
                                      call.geometry_type_override, EmptyGdb,
                                      degenerate_kept).gdb
           IN /\ gdb[call.output_name] = fresh[call.output_name]
              /\ gdb[TempName(call.output_name)] = fresh[TempName(call.output_name)]
    /\ bpc = "done" =>
         /\ Len(summary) = Len(index) + 1
         /\ summary[1] = Header
         /\ \A k \in 2..Len(summary) :
              /\ summary[k].name = index[k - 1]
              /\ TwoDecimalsOf(summary[k], pct[index[k - 1]])

\* an import into a geodatabase that held classes of an earlier run
\* returned, and a batch run over a summary of an earlier run completed
C18_Witness ==
    \/ /\ pc = "import_returned"
       /\ Len(gdb[call.output_name].rows) > 0
       /\ gdb["stops_pts"].exists
    \/ /\ bpc = "done"
       /\ Len(index) = 1
       /\ summary[2] # StaleSummary[2]

--------------------------------------------------------------------------
(* Claims about the classification boundaries *)

\* the boundaries between two bins of classify_isochrones
InnerBoundaries ==
    {b \in ClassBoundaries :
       /\ \E k \in 1..Len(RemapRange) : RemapRange[k][1] = b
       /\ \E k \in 1..Len(RemapRange) : RemapRange[k][2] = b}

LargestBoundary == CHOOSE b \in InnerBoundaries : \A x \in InnerBoundaries : x <= b

\* C19: the raster classes and the building classifier use the same cutoff
\* boundaries: the threshold of the building classifier is a bin boundary
\* of classify_isochrones, and a centroid is flagged excluded exactly when
\* its travel time lies beyond the largest classification boundary.
C19_SameBoundaries ==
    pc = "done" =>
      \A k \in 1..Len(centroids) :
        /\ ExcludedThreshold \in ClassBoundaries
        /\ centroids[k].is_excluded = 1
             <=> ( \/ centroids[k].walk_time_min.null
                   \/ centroids[k].walk_time_min.v > LargestBoundary )

--------------------------------------------------------------------------
(* Claims about the conversions between minutes and metres *)

\* the cutoffs in minutes the claim names
C21_Minutes == <<5, 10, 15>>

\* a < b for two fractions with positive denominators
C21_Less(a, b) == a.num * b.den < b.num * a.den

\* a length of L metres is at most the cutoff of cutoff_m metres
C21_WithinMeters(L, cutoff_m) == L * cutoff_m.den <= cutoff_m.num

\* C21: the minutes charged per metre on a cost-1 cell equal
\* 1 / (S*1000/60); the cutoff of c minutes becomes c * (S*1000/60) metres;
\* a length L is within the cutoff in metres exactly when L / (S*1000/60)
\* <= c, that is when L times the minutes per metre is at most c; and the
\* converted list of [5, 10, 15] is non-empty and strictly increasing, for
\* every speed S > 0.
C21_ConversionsAgree ==
    /\ kpc \in {"costed", "done"} =>
         /\ minutes_per_metre.den > 0
         /\ minutes_per_metre.num * (kmh * 1000) = minutes_per_metre.den * 60
    /\ kpc \in {"converted", "done"} =>
         /\ Len(cutoffs_m) = Len(C21_Minutes)
         /\ Len(cutoffs_m) >= 1
         /\ \A i \in 1..Len(cutoffs_m) :
              /\ cutoffs_m[i].den > 0
              /\ cutoffs_m[i].num * 60 = C21_Minutes[i] * kmh * 1000 * cutoffs_m[i].den
         /\ \A i \in 1..(Len(cutoffs_m) - 1) : C21_Less(cutoffs_m[i], cutoffs_m[i + 1])
    /\ kpc = "done" =>
         \A i \in 1..Len(cutoffs_m) :
            C21_WithinMeters(length_m, cutoffs_m[i]) <=>
              length_m * minutes_per_metre.num <= C21_Minutes[i] * minutes_per_metre.den

\* both conversions ran for a speed other than the default, and the length
\* lies exactly on one cutoff and beyond another
C21_Witness ==
    /\ kpc = "done"
    /\ kmh > 0
    /\ kmh # walking_speed_kmh
    /\ \E i \in 1..Len(cutoffs_m) : length_m * cutoffs_m[i].den = cutoffs_m[i].num
    /\ \E i \in 1..Len(cutoffs_m) : ~C21_WithinMeters(length_m, cutoffs_m[i])

--------------------------------------------------------------------------
(* Claims about is_rural_gmina *)

\* a tag value that is present and non-blank
C22_NonBlank(v) == v # NoneValue /\ Strip(v) # << >>

\* a TERC code is present and non-blank under teryt:terc or under terc
C22_HasCode(tg) == C22_NonBlank(tg.teryt_terc) \/ C22_NonBlank(tg.terc)

\* that code: the one of teryt:terc, else the one of terc
C22_Code(tg) ==
    IF C22_NonBlank(tg.teryt_terc) THEN Strip(tg.teryt_terc) ELSE Strip(tg.terc)

\* the answer of the heuristics on name and place
C22_Heuristics(tg) ==
    LET name == IF tg.name = NoneValue THEN << >> ELSE Lower(tg.name)
        place == IF tg.place = NoneValue THEN << >> ELSE Lower(tg.place)
    IN  ~ \/ Contains(name, <<"m", "i", "a", "s", "t", "o">>)
          \/ StartsWith(name, <<"m", ".", " ">>)
          \/ place = <<"c", "i", "t", "y">>
          \/ place = <<"t", "o", "w", "n">>

\* C22: whenever a TERC code is present and non-blank under teryt:terc or
\* terc, is_rural_gmina returns true exactly when the code's last character
\* is in {2}, whatever name and place are; only when no code is present does
\* it return the answer of the heuristics.
C22_DecidesByCodeWhenPresent ==
    rpc = "returned" =>
      IF C22_HasCode(gmina_tags)
        THEN rural = (C22_Code(gmina_tags)[Len(C22_Code(gmina_tags))] \in {"2"})
        ELSE rural = C22_Heuristics(gmina_tags)

\* the same, for tags whose teryt:terc is not a blank string hiding a code
\* under terc
C22_DecidesByCodeUnlessShadowed ==
    (rpc = "returned"
       /\ ~(Truthy(gmina_tags.teryt_terc) /\ ~C22_NonBlank(gmina_tags.teryt_terc)
            /\ C22_NonBlank(gmina_tags.terc))) =>
      IF C22_HasCode(gmina_tags)
        THEN rural = (C22_Code(gmina_tags)[Len(C22_Code(gmina_tags))] \in {"2"})
        ELSE rural = C22_Heuristics(gmina_tags)

--------------------------------------------------------------------------
(* Claims about a successful attempt of the retry wrapper *)

\* C23: when an attempt of a retry-wrapped operation succeeds, the wrapper
\* returns at once: the successful invocation is the last one, the delays
\* slept are those after the failed attempts before it and no more, and no
\* exception of an earlier attempt is raised to the caller.  For a download
\* that calls the wrapped download_overpass, a returned download raised
\* nothing and its last request succeeded.
C23_SuccessReturnsAtOnce ==
    /\ fn \in DirectFns =>
         \A i \in 1..Len(outcomes) :
            outcomes[i] = "ok" =>
              /\ i = Len(outcomes)
              /\ wpc = "returned"
              /\ raised = NoException
              /\ Len(sleeps) = i - 1
    /\ fn \in DownloadFns =>
         (opc = "returned" =>
            /\ raised = NoException
            /\ Len(outcomes) >= 1
            /\ outcomes[Len(outcomes)] = "ok")

\* a call returned after two failed attempts, with their exception stored
C23_Witness ==
    /\ fn \in DirectFns
    /\ wpc = "returned"
    /\ Len(outcomes) = 3
    /\ outcomes[3] = "ok"
    /\ last_exception # NoException
    /\ Len(sleeps) = 2

--------------------------------------------------------------------------
(* Claims about the check-in of the Spatial extension *)

--------------------------------------------------------------------------
(* Claims about the files of download_rural_gminas_data *)

\* C24: after download_rural_gminas_data completes without error, every
\* gmina of the index file it wrote has in its directory the four files
\* process_gmina looks for (stops, boundary, road network, buildings).
C24_IndexedGminasHaveAllInputs ==
    dpc = "done" =>
      \A k \in 1..Len(index_file) :
         \A j \in 1..Len(RequiredFiles) :
            <<index_file[k].id, FileNameOf(RequiredFiles[j])>> \in dir_files

\* the same for the gminas that were downloaded in full, which still lack
\* the road network file
C24_DownloadedGminasHaveAllInputs ==
    dpc = "done" =>
      \A k \in 1..Len(index_file) :
         index_file[k].bbox =>
           \A j \in 1..Len(RequiredFiles) :
              <<index_file[k].id, FileNameOf(RequiredFiles[j])>> \in dir_files

--------------------------------------------------------------------------
(* Claims about the time limit of calculate_travel_time *)

\* C26: calculate_travel_time imposes no distance limit: for the same stops
\* and impedance raster the raster it saves is the one it saves for every
\* other value of max_time_min, and every cell a stop reaches at finite cost
\* holds a value.
C26_ResultIndependentOfMaxTime ==
    tpc = "saved" =>
      /\ \A m \in MaxTimes :
            travel_time_ras = TravelTimeRaster(stops_fc, impedance_raster, m)
      /\ \A c \in Cells :
            (\E s \in stops_fc : Connected(s, c, impedance_raster))
              => ~travel_time_ras[c].null

\* a call with max_time_min = 0 saved a raster with a cell at more than 0
\* minutes from the nearest stop
C26_Witness ==
    /\ tpc = "saved"
    /\ max_time_min = 0
    /\ \E c \in Cells :
         /\ ~travel_time_ras[c].null
         /\ travel_time_ras[c].v.num > 0

=============================================================================
